---- MODULE Spec2Model ----
(***************************************************************************)
(* Model of the ELM327 emulator engine (src/elm/elm.py): the worker loop   *)
(* Elm.run, the request handler Elm.handle_request with its PCI parsing,   *)
(* the per-header task table driven by Elm.task_action, the Multiline      *)
(* reassembly task, catalog resolution and the response renderer.          *)
(*                                                                         *)
(* Text is modelled as sequences of one-character strings.  A value that   *)
(* Python may hold as None is modelled as a sequence of length 0 (None) or *)
(* 1 (Some(x)).                                                            *)
(***************************************************************************)
EXTENDS Integers, Sequences, FiniteSets, TLC

(***************************************************************************)
(* Bounds of the model                                                     *)
(***************************************************************************)
\* number of lines the worker reads in a behaviour of Spec
MaxCommands == 3
\* number of lines the worker reads in a behaviour of SpecFrames
MaxFrames == 5
\* number of lines the worker reads in a behaviour of SpecLong
MaxCommandsLong == 36
\* highest Consecutive Frame index among the input lines of SpecLong
MaxCF == 33
\* number of bytes the First Frame of SpecLong declares
LongLength == 35

(***************************************************************************)
(* Optional values                                                         *)
(***************************************************************************)
None == <<>>
Some(x) == <<x>>
IsNone(o) == Len(o) = 0
IsSome(o) == Len(o) = 1
Get(o) == o[1]

(***************************************************************************)
(* Binding of an intermediate value: With(v, LAMBDA x : e) is e with x = v *)
(***************************************************************************)
With(v, Op(_)) == Op(v)

(***************************************************************************)
(* Characters, hexadecimal text                                            *)
(***************************************************************************)
HexDigits == <<"0", "1", "2", "3", "4", "5", "6", "7",
               "8", "9", "A", "B", "C", "D", "E", "F">>

\* the value of a hexadecimal digit, either case
HexTable ==
    [c \in {"0", "1", "2", "3", "4", "5", "6", "7", "8", "9",
            "A", "B", "C", "D", "E", "F", "a", "b", "c", "d", "e", "f"} |->
        CASE c = "0" -> 0 [] c = "1" -> 1 [] c = "2" -> 2 [] c = "3" -> 3
          [] c = "4" -> 4 [] c = "5" -> 5 [] c = "6" -> 6 [] c = "7" -> 7
          [] c = "8" -> 8 [] c = "9" -> 9
          [] c \in {"A", "a"} -> 10 [] c \in {"B", "b"} -> 11
          [] c \in {"C", "c"} -> 12 [] c \in {"D", "d"} -> 13
          [] c \in {"E", "e"} -> 14 [] c \in {"F", "f"} -> 15]

\* the lower-case letters of the input alphabet and their upper case
UpperTable ==
    [c \in {"a", "b", "c", "d", "e", "f", "t", "z", "s", "h"} |->
        CASE c = "a" -> "A" [] c = "b" -> "B" [] c = "c" -> "C" [] c = "d" -> "D"
          [] c = "e" -> "E" [] c = "f" -> "F" [] c = "t" -> "T" [] c = "z" -> "Z"
          [] c = "s" -> "S" [] c = "h" -> "H"]

\* str.upper() for one character
UpperChar(c) == IF c \in DOMAIN UpperTable THEN UpperTable[c] ELSE c

IsHexChar(c) == c \in DOMAIN HexTable

HexVal(c) == HexTable[c]

IsSpaceChar(c) == c = " "

\* s[:n]
Take(s, n) == SubSeq(s, 1, IF n < Len(s) THEN n ELSE Len(s))
\* s[n:]
Drop(s, n) == SubSeq(s, n + 1, Len(s))

UpperSeq(s) == [i \in 1..Len(s) |-> UpperChar(s[i])]

\* cmd.replace(" ", "").upper()
Sanitize(s) == UpperSeq(SelectSeq(s, LAMBDA c : c # " "))

\* Elm.is_hex_sp: re.match(r"^[0-9a-fA-F \t\r\n]*$", s or "")
is_hex_sp(s) == \A i \in 1..Len(s) : IsHexChar(s[i]) \/ IsSpaceChar(s[i])

AllHex(s) == \A i \in 1..Len(s) : IsHexChar(s[i])

RECURSIVE HexToInt(_)
\* value of a string of hexadecimal digits (most significant first)
HexToInt(s) ==
    IF Len(s) = 0 THEN 0
    ELSE 16 * HexToInt(SubSeq(s, 1, Len(s) - 1)) + HexVal(s[Len(s)])

\* int(s, 16): None stands for ValueError
ParseInt16(s) == IF Len(s) > 0 /\ AllHex(s) THEN Some(HexToInt(s)) ELSE None

RECURSIVE IntToHex(_)
\* hex(n)[2:].upper()
IntToHex(n) ==
    IF n < 16 THEN <<HexDigits[n + 1]>>
    ELSE Append(IntToHex(n \div 16), HexDigits[(n % 16) + 1])

\* "%02X" % n
Hex02(n) == IF n < 16 THEN <<"0", HexDigits[n + 1]>> ELSE IntToHex(n)

RECURSIVE FromHexFrom(_, _, _)
\* bytearray.fromhex(s) from position i on, acc the bytes read so far: the
\* byte values, None when it raises ValueError (white space is skipped
\* before a byte, never inside one)
FromHexFrom(s, i, acc) ==
    IF i > Len(s) THEN Some(acc)
    ELSE IF IsSpaceChar(s[i]) THEN FromHexFrom(s, i + 1, acc)
    ELSE IF i < Len(s) /\ IsHexChar(s[i]) /\ IsHexChar(s[i + 1])
    THEN FromHexFrom(s, i + 2, Append(acc, 16 * HexVal(s[i]) + HexVal(s[i + 1])))
    ELSE None

FromHex(s) == FromHexFrom(s, 1, <<>>)

\* Elm.len_hex: len(bytearray.fromhex(s)), False (0) when fromhex raises
len_hex(s) == With(FromHex(s), LAMBDA b : IF IsNone(b) THEN 0 ELSE Len(Get(b)))

\* re.match of a literal pattern: the pattern is a prefix of the text;
\* with a trailing "$" the whole text must be the pattern
ReMatch(pat, s) ==
    IF Len(pat) > 0 /\ pat[Len(pat)] = "$"
    THEN s = SubSeq(pat, 1, Len(pat) - 1)
    ELSE Len(s) >= Len(pat) /\ SubSeq(s, 1, Len(pat)) = pat

(***************************************************************************)
(* Dictionaries (self.counters, self.tasks).  A key of self.counters is a  *)
(* sequence of strings whose concatenation is the Python key, so that      *)
(* k.startswith('cmd_') is k[1] = "cmd_".                                  *)
(***************************************************************************)
EmptyDict == [k \in {} |-> 0]
Has(d, k) == k \in DOMAIN d
Put(d, k, v) == [x \in (DOMAIN d) \cup {k} |-> IF x = k THEN v ELSE d[x]]
Del(d, k) == [x \in (DOMAIN d) \ {k} |-> d[x]]
\* if k not in d: d[k] = 0 ; d[k] += 1
Incr(d, k) == Put(d, k, (IF Has(d, k) THEN d[k] ELSE 0) + 1)
\* d.update(e)
Update(d, e) == [x \in (DOMAIN d) \cup (DOMAIN e) |-> IF x \in DOMAIN e THEN e[x] ELSE d[x]]

K_commands == <<"commands">>
K_set_header == <<"cmd_", "set_header">>
K_caf == <<"cmd_", "caf">>
K_cfc == <<"cmd_", "cfc">>
K_fcsm == <<"cmd_", "fcsm">>
K_use_header == <<"cmd_", "use_header">>
K_spaces == <<"cmd_", "spaces">>
K_linefeeds == <<"cmd_", "linefeeds">>
K_last_cmd == <<"cmd_", "last_cmd">>
\* "unknown_" + repr(cmd)
K_unknown(cmd) == <<"unknown_">> \o cmd

(***************************************************************************)
(* Values imported from obd_message.py                                     *)
(***************************************************************************)
ECU_ADDR_E == <<"7", "E", "0">>
\* ST(s): '<string>' + s + '</string>'
ST(s) == <<[tag |-> "string", text |-> s]>>
ELM_R_OK == ST(<<"O", "K">>)
ELM_R_UNKNOWN == ST(<<"?">>)
NO_DATA == <<"N", "O", " ", "D", "A", "T", "A">>

(***************************************************************************)
(* Tasks.__init__: the fields of a task object.  kind is the name of the   *)
(* class (Multiline, or the plugin module of a Task class); born is the    *)
(* value of the 'commands' counter when the object was constructed, which  *)
(* tells two objects of one class apart.                                   *)
(***************************************************************************)
flow_control_end == 32

NewTask(kind, header, request, born) ==
    [kind |-> kind, header |-> header, request |-> request, born |-> born,
     frame |-> None, length |-> None,
     flow_control |-> 0, req |-> None]

\* Tasks.TASK: the return values of a task method (r_cmd, r_task, r_cont)
TERMINATE == FALSE
CONTINUE == TRUE
TaskRet(r_cmd, r_task, r_cont) ==
    [raised |-> FALSE, r_cmd |-> r_cmd, r_task |-> r_task, r_cont |-> r_cont]
TASK_ERROR == TaskRet(None, TERMINATE, None)
TASK_INCOMPLETE == TaskRet(None, CONTINUE, None)
TASK_PASSTHROUGH(cmd) == TaskRet(None, TERMINATE, Some(cmd))
\* a task method that raised an exception
TASK_RAISED == [raised |-> TRUE, r_cmd |-> None, r_task |-> TERMINATE, r_cont |-> None]

(***************************************************************************)
(* Response renderer: Elm.uds_answer and Elm.handle_response.  A response  *)
(* template is the sequence of the nodes of its XML text, each a record    *)
(* [tag, text].                                                            *)
(***************************************************************************)
RECURSIVE JoinHex(_, _)
\* sp.join('{:02x}'.format(x) for x in bytes).upper()
JoinHex(bytes, sp) ==
    IF Len(bytes) = 0 THEN <<>>
    ELSE IF Len(bytes) = 1 THEN Hex02(bytes[1])
    ELSE Hex02(bytes[1]) \o sp \o JoinHex(Tail(bytes), sp)

RECURSIVE SumSeq(_)
SumSeq(q) == IF Len(q) = 0 THEN 0 ELSE q[1] + SumSeq(Tail(q))

UdsRaised == [raised |-> TRUE, answer |-> <<>>]
UdsAnswer(a) == [raised |-> FALSE, answer |-> a]

\* uds_answer, lines 1026-1034: 11-bit header; reply is the reply header
Uds11(reply, length, d, use_headers, sp, flow_control) ==
    IF IsSome(flow_control) /\ Len(Get(flow_control)) > 0
    THEN UdsAnswer((IF use_headers THEN reply \o sp ELSE <<>>)
                   \o Get(flow_control) \o sp \o d)
    ELSE UdsAnswer((IF use_headers THEN reply \o sp \o Hex02(length) \o sp ELSE <<>>)
                   \o d)

\* uds_answer, lines 1038-1051: 29-bit header
Uds29(rh, length, d, sp) ==
    With(IF length < 10
         THEN IntToHex(128 + length) \o sp \o SubSeq(rh, 5, 6) \o sp
              \o SubSeq(rh, 3, 4) \o sp \o d
         ELSE <<"8", "0", " ">> \o SubSeq(rh, 5, 6) \o sp
              \o SubSeq(rh, 3, 4) \o sp \o IntToHex(length) \o sp \o d,
         LAMBDA a :
            With(FromHex(a), LAMBDA b :
                IF IsNone(b) THEN UdsRaised
                ELSE UdsAnswer(a \o <<" ">> \o Hex02(SumSeq(Get(b)) % 256))))

\* uds_answer, lines 1019-1054: rh is the stripped header, bytes the result
\* of bytearray.fromhex(data)
UdsEncode(rh, bytes, use_headers, sp, flow_control) ==
    IF Len(rh) = 0 \/ IsNone(bytes) THEN UdsAnswer(<<>>)
    ELSE IF Len(rh) = 3
    THEN IF use_headers /\ ~AllHex(rh) THEN UdsRaised
         ELSE Uds11(IF use_headers THEN IntToHex(HexToInt(rh) + 8) ELSE <<>>,
                    Len(Get(bytes)), JoinHex(Get(bytes), sp),
                    use_headers, sp, flow_control)
    ELSE IF Len(rh) = 6
    THEN IF IsSome(flow_control) /\ Len(Get(flow_control)) > 0 THEN UdsAnswer(<<>>)
         ELSE IF ~use_headers THEN UdsAnswer(<<>>)
         ELSE Uds29(rh, Len(Get(bytes)), JoinHex(Get(bytes), sp), sp)
    ELSE UdsAnswer(<<>>)

\* Elm.uds_answer; the result is [raised, answer]
uds_answer(cnt, data, request_header, use_headers, sp, flow_control) ==
    IF IsNone(request_header) /\ ~Has(cnt, K_set_header) THEN UdsRaised
    ELSE UdsEncode(Sanitize(IF IsNone(request_header) THEN cnt[K_set_header]
                            ELSE Get(request_header)),
                   FromHex(data), use_headers, sp, flow_control)

\* the line terminator selected by counters['cmd_linefeeds'] (nl_type)
NlOf(cnt) ==
    IF Has(cnt, K_linefeeds)
    THEN CASE cnt[K_linefeeds] \in {0, 3} -> <<"\r">>
           [] cnt[K_linefeeds] \in {1, 4} -> <<"\r", "\n">>
           [] cnt[K_linefeeds] \in {2, 5} -> <<"\n">>
           [] OTHER -> <<"\r">>
    ELSE <<"\r">>

SpOf(cnt) == IF Has(cnt, K_spaces) /\ cnt[K_spaces] = 0 THEN <<>> ELSE <<" ">>

UseHeaders(cnt) == Has(cnt, K_use_header) /\ cnt[K_use_header] = TRUE

K_cra == <<"cmd_", "cra">>

\* handle_response, lines 1065-1070 and 1253: re.match of the pattern made
\* from counters['cmd_cra'] (every X stands for any character) on the text
\* of a header node; without cmd_cra every text matches
CraMatch(cnt, text) ==
    IF Has(cnt, K_cra) /\ Len(cnt[K_cra]) > 0
    THEN /\ Len(text) = Len(cnt[K_cra])
         /\ \A k \in 1..Len(text) : cnt[K_cra][k] \in {"X", text[k]}
    ELSE TRUE

\* ET.fromstring, line 1105: a node whose tag is empty stands for a piece
\* of the text that is no well-formed element; the parse then fails
WellFormed(resp) == \A k \in 1..Len(resp) : resp[k].tag # ""

RECURSIVE Strip(_)
\* str.strip()
Strip(t) ==
    IF Len(t) = 0 THEN t
    ELSE IF IsSpaceChar(t[1]) THEN Strip(Tail(t))
    ELSE IF IsSpaceChar(t[Len(t)]) THEN Strip(SubSeq(t, 1, Len(t) - 1))
    ELSE t

\* eval(msg), lines 1138-1152: the value of a string literal is its text;
\* anything else is a statement, which exec runs and which appends nothing
EvalText(msg) ==
    IF Len(msg) >= 2 /\ msg[1] = "'" /\ msg[Len(msg)] = "'"
    THEN SubSeq(msg, 2, Len(msg) - 1)
    ELSE <<>>

\* write_to_device(answ.encode()): the texts handed to the device so far;
\* an empty text sends nothing
Written(written, answ) == IF Len(answ) = 0 THEN written ELSE Append(written, answ)

\* handle_response, lines 1130-1155: an eval or exec node; exec writes the
\* text rendered so far and starts afresh (do_write is True)
RenderEval(i, acc) ==
    With(IF i.tag = "exec"
         THEN [acc EXCEPT !.written = Written(@, acc.answ), !.answ = <<>>]
         ELSE acc,
         LAMBDA a : [a EXCEPT !.answ = @ \o EvalText(Strip(i.text))])

\* handle_response, lines 1157-1168: a flow or answer node; u is the result
\* of uds_answer
RenderUds(acc, u, sp, nl) ==
    IF u.raised THEN [acc EXCEPT !.raised = TRUE]
    ELSE [acc EXCEPT !.answ = @ \o u.answer \o sp \o nl]

\* line 1184: "%02X" % (request_data[:2] + 64) + request_data[2:4] + text
PosData(rd, text) ==
    Hex02(HexToInt(Take(rd, 2)) + 64) \o Drop(Take(rd, 4), 2) \o text

\* line 1206: "7F " + request_data[:2] + text
NegData(rd, text) == <<"7", "F", " ">> \o Take(rd, 2) \o text

\* handle_response, lines 1169-1210: a pos_answer or neg_answer node; bytes
\* is bytearray.fromhex(request_data)
RenderReply(cnt, i, acc, bytes, sp, nl) ==
    IF IsNone(bytes) THEN [acc EXCEPT !.halt = "return"]
    ELSE IF Len(Get(bytes)) = 0 /\ i.tag = "pos_answer" THEN [acc EXCEPT !.raised = TRUE]
    ELSE With(JoinHex(Get(bytes), <<>>), LAMBDA rd :
            RenderUds([acc EXCEPT !.request_data = Some(rd)],
                      uds_answer(cnt,
                                 IF i.tag = "pos_answer" THEN PosData(rd, i.text)
                                 ELSE NegData(rd, i.text),
                                 acc.request_header, UseHeaders(cnt), sp, None),
                      sp, nl))

\* one pass of the loop of handle_response over the node i; acc is
\* [answ, request_header, request_data, raised, written, answers,
\* incomplete, halt]
RenderNode(cnt, i, acc, sp, nl) ==
    CASE i.tag = "rh" -> [acc EXCEPT !.request_header = Some(i.text)]
      [] i.tag = "rd" -> [acc EXCEPT !.request_data = Some(i.text)]
      [] i.tag = "string" -> [acc EXCEPT !.answ = @ \o i.text]
      [] i.tag = "writeln" -> [acc EXCEPT !.answ = @ \o i.text \o nl]
      [] i.tag = "space" -> [acc EXCEPT !.answ = @ \o i.text \o sp]
      [] i.tag \in {"eval", "exec"} -> RenderEval(i, acc)
      [] i.tag \in {"flow", "answer"} ->
            RenderUds(acc,
                      uds_answer(cnt, i.text, acc.request_header, UseHeaders(cnt), sp,
                                 IF i.tag = "flow" THEN Some(<<"3", "0">>) ELSE None),
                      sp, nl)
      [] i.tag \in {"pos_answer", "neg_answer"} ->
            IF IsNone(acc.request_data) \/ Len(Get(acc.request_data)) = 0
            THEN [acc EXCEPT !.halt = "break"]
            ELSE RenderReply(cnt, i, acc, FromHex(Get(acc.request_data)), sp, nl)
      [] OTHER -> acc  \* unknown tag: logged, nothing appended

\* lines 1213-1251: the nodes after a header node are missing or wrong
TripleFailed(acc) == [acc EXCEPT !.answers = TRUE, !.incomplete = TRUE, !.halt = "break"]

\* lines 1252-1258: the triple is appended when the header passes the
\* filter
TripleAppend(cnt, header, size, data, acc, sp, nl) ==
    IF Len(header.text) = 0 THEN [acc EXCEPT !.raised = TRUE]
    ELSE IF ~CraMatch(cnt, header.text) THEN [acc EXCEPT !.answers = TRUE]
    ELSE [acc EXCEPT
            !.answers = TRUE,
            !.answ = @ \o (IF UseHeaders(cnt)
                           THEN header.text \o sp \o size.text \o sp ELSE <<>>)
                       \o (IF Len(sp) > 0 THEN data.text
                           ELSE SelectSeq(data.text, LAMBDA c : ~IsSpaceChar(c)))
                       \o sp \o (IF data.tag = "data" THEN nl ELSE <<>>)]

\* lines 1232-1251: int_size is int(size.text, 16)
TripleChecked(cnt, header, size, data, int_size, acc, sp, nl) ==
    IF Len(size.text) = 0 THEN [acc EXCEPT !.raised = TRUE]
    ELSE IF IsNone(int_size) \/ Len(data.text) = 0 THEN TripleFailed(acc)
    ELSE IF Get(int_size) < 16
            /\ Len(SelectSeq(data.text, LAMBDA c : ~IsSpaceChar(c))) # Get(int_size) * 2
    THEN TripleFailed(acc)
    ELSE TripleAppend(cnt, header, size, data, acc, sp, nl)

\* handle_response, lines 1212-1258: nodes starts with a header node
RenderTriple(cnt, nodes, acc, sp, nl) ==
    IF Len(nodes) < 3 THEN TripleFailed(acc)
    ELSE IF nodes[2].tag # "size" \/ nodes[3].tag \notin {"data", "subd"}
    THEN TripleFailed(acc)
    ELSE TripleChecked(cnt, nodes[1], nodes[2], nodes[3],
                       ParseInt16(nodes[2].text), acc, sp, nl)

RECURSIVE RenderNodes(_, _, _, _, _)
\* the loop of handle_response, lines 1114-1262
RenderNodes(cnt, nodes, acc, sp, nl) ==
    IF Len(nodes) = 0 \/ acc.raised \/ acc.halt # "" THEN acc
    ELSE IF Head(nodes).tag = "header"
    THEN RenderNodes(cnt, Drop(nodes, 3), RenderTriple(cnt, nodes, acc, sp, nl), sp, nl)
    ELSE RenderNodes(cnt, Tail(nodes), RenderNode(cnt, Head(nodes), acc, sp, nl), sp, nl)

\* the prompt is left out
PromptNone(cnt, answ, nl) == answ

\* lines 1269-1273: the prompt is appended
Prompt(cnt, answ, nl) ==
    IF Has(cnt, K_linefeeds) /\ cnt[K_linefeeds] > 2
    THEN answ \o <<">">>
    ELSE answ \o nl \o <<">">>

\* an empty rendering is answered NO DATA
NoDataAlways(acc, nl) == IF Len(acc.answ) = 0 THEN NO_DATA \o nl ELSE acc.answ

\* lines 1263-1264
NoData(acc, nl) ==
    IF acc.incomplete \/ (acc.answers /\ Len(acc.answ) = 0)
    THEN NO_DATA \o nl
    ELSE acc.answ

\* lines 1265-1277: answ is the text after line 1264
FinishWrite(cnt, acc, answ, nl) ==
    IF Len(answ) = 0
    THEN [raised |-> FALSE, written |-> acc.written, returned |-> None]
    ELSE [raised |-> FALSE, written |-> Append(acc.written, Prompt(cnt, answ, nl)),
          returned |-> Some(Prompt(cnt, answ, nl))]

\* handle_response, lines 1263-1277: the prompt is appended and the text is
\* written; nothing is written when the rendering is empty
FinishResponse(cnt, acc, nl) ==
    IF acc.raised THEN [raised |-> TRUE, written |-> acc.written, returned |-> None]
    ELSE IF acc.halt = "return"
    THEN [raised |-> FALSE, written |-> acc.written, returned |-> Some(<<>>)]
    ELSE FinishWrite(cnt, acc, NoData(acc, nl), nl)

NewAcc(request_header, request_data, incomplete) ==
    [answ |-> <<>>, request_header |-> request_header,
     request_data |-> request_data, raised |-> FALSE,
     written |-> <<>>, answers |-> FALSE, incomplete |-> incomplete, halt |-> ""]

\* Elm.handle_response with do_write=True; the result is [raised, written,
\* returned]: whether an exception left the method, the texts handed to
\* write_to_device, and the value returned (None, or a text)
handle_response(cnt, resp, request_header, request_data) ==
    FinishResponse(cnt,
        IF WellFormed(resp)
        THEN RenderNodes(cnt, resp, NewAcc(request_header, request_data, FALSE),
                         SpOf(cnt), NlOf(cnt))
        ELSE NewAcc(request_header, request_data, TRUE),
        NlOf(cnt))

(***************************************************************************)
(* Task methods.  The result of a method is [self, ret, written]: the task *)
(* object after the call, the returned tuple (or the exception) and the    *)
(* texts the method wrote to the device.                                   *)
(***************************************************************************)
Truthy(o) == IsSome(o) /\ Get(o) # 0

NoRender == [raised |-> FALSE, written |-> <<>>, returned |-> None]

\* '<flow>' + hex(self.flow_control_end)[2:].upper() + ' 00</flow>'
FlowTemplate == <<[tag |-> "flow", text |-> IntToHex(flow_control_end) \o <<" ", "0", "0">>]>>

\* the request is handed on whole
TruncatedNot(req, length) == req

\* self.req[:self.length * 2]
Truncated(req, length) == Take(req, length * 2)

\* the request is never found complete
MultilineDoneNever(self0, self, resp) ==
    IF resp.raised THEN [self |-> self0, ret |-> TASK_RAISED, written |-> <<>>]
    ELSE [self |-> self, ret |-> TASK_INCOMPLETE, written |-> resp.written]

\* Multiline.run, lines 258-261: completion; resp is the result of the
\* flow-control write
MultilineDone(self0, self, resp) ==
    IF resp.raised THEN [self |-> self0, ret |-> TASK_RAISED, written |-> <<>>]
    ELSE IF Get(self.length) * 2 <= Len(Get(self.req))
    THEN [self |-> [self EXCEPT !.frame = None],
          ret |-> TASK_PASSTHROUGH(Truncated(Get(self.req), Get(self.length))),
          written |-> resp.written]
    ELSE [self |-> self, ret |-> TASK_INCOMPLETE, written |-> resp.written]

\* the cadence counter is set to the block size itself
NextFlowControlBlock(fc) == IF fc # 0 THEN fc - 1 ELSE flow_control_end

\* the cadence counter after lines 243-256
NextFlowControl(fc) == IF fc # 0 THEN fc - 1 ELSE flow_control_end - 1

\* Multiline.run, lines 242-256: flow control
MultilineFlow(cnt, self, header, cmd) ==
    MultilineDone(self,
        [self EXCEPT !.flow_control = NextFlowControl(@)],
        IF self.flow_control = 0 /\ (~Has(cnt, K_cfc) \/ cnt[K_cfc] = 1)
        THEN handle_response(cnt, FlowTemplate, header, Some(cmd))
        ELSE NoRender)

\* a First Frame is taken whatever the task holds
AlreadyCollectingNever(self) == FALSE

\* Multiline.run, line 220: self.frame or self.length
AlreadyCollecting(self) == Truthy(self.frame) \/ Truthy(self.length)

\* Multiline.run, line 219
IsFirstFrame(length, frame) == IsSome(frame) /\ Get(frame) = 0 /\ Get(length) > 0

\* a Consecutive Frame is taken whatever its index
IsConsecutiveFrameAny(self, length, frame) ==
    IsSome(frame) /\ Get(frame) > 0 /\ IsSome(self.frame) /\ IsNone(length)

\* Multiline.run, lines 226-227
IsConsecutiveFrame(self, length, frame) ==
    IsSome(frame) /\ Get(frame) > 0 /\ self.frame = frame /\ IsNone(length)

\* Multiline.run, lines 230-231
IsSingleFrame(self, length, frame) ==
    (IsNone(length) \/ Get(length) > 0) /\ IsNone(frame) /\ IsNone(self.frame)

\* Multiline.run
MultilineRun(cnt, self, header, cmd, length, frame) ==
    IF IsSome(frame) /\ Get(frame) = 0 /\ IsNone(length)
    THEN [self |-> self, ret |-> TASK_RAISED, written |-> <<>>]
    ELSE IF IsFirstFrame(length, frame) /\ AlreadyCollecting(self)
    THEN [self |-> self, ret |-> TASK_ERROR, written |-> <<>>]
    ELSE IF IsFirstFrame(length, frame) \/ IsConsecutiveFrame(self, length, frame)
    THEN MultilineFlow(cnt,
             IF IsFirstFrame(length, frame)
             THEN [self EXCEPT !.req = Some(cmd), !.frame = Some(1), !.length = length]
             ELSE [self EXCEPT !.req = Some(Get(@) \o cmd), !.frame = Some(Get(@) + 1)],
             header, cmd)
    ELSE IF IsSingleFrame(self, length, frame)
    THEN [self |-> [self EXCEPT !.req = Some(cmd), !.length = length],
          ret |-> IF Truthy(length)
                  THEN TASK_PASSTHROUGH(Truncated(cmd, Get(length)))
                  ELSE TASK_PASSTHROUGH(cmd),
          written |-> <<>>]
    ELSE [self |-> self, ret |-> TASK_ERROR, written |-> <<>>]

\* plugins/task_write_vin.py, Task.run: self.multiline_request is defined
\* nowhere, so the method raises AttributeError on every call
WriteVinRun(self) == [self |-> self, ret |-> TASK_RAISED, written |-> <<>>]

\* A response a plugin returns
PluginResponse == ST(<<"O", "K">>)

\* What a method of a Task class written to the contract of Tasks.run may
\* do: raise, or return (response or None, continue flag, passthrough or
\* None); cont is "none", "same" for the command it was given, as
\* Tasks.run hands it on, or "other" for the command PluginCommand
AnyOutcome == [raised |-> TRUE, resp |-> FALSE, r_task |-> TERMINATE, cont |-> "none"]

PluginOutcomes ==
    {AnyOutcome}
    \cup [raised : {FALSE}, resp : BOOLEAN, r_task : {TERMINATE, CONTINUE},
          cont : {"none", "same"}]

\* the plain outcomes and the passthrough of another command
PassOutcomes ==
    {AnyOutcome}
    \cup [raised : {FALSE}, resp : {FALSE}, r_task : {TERMINATE, CONTINUE},
          cont : {"none", "other"}]

\* the other command a plugin hands back for resolution
PluginCommand == <<"0", "1", "0", "0">>

PluginRun(self, cmd, oc) ==
    [self |-> self,
     ret |-> IF oc.raised THEN TASK_RAISED
             ELSE TaskRet(IF oc.resp THEN Some(PluginResponse) ELSE None,
                          oc.r_task,
                          IF oc.cont = "none" THEN None
                          ELSE IF oc.cont = "same" THEN Some(cmd)
                          ELSE Some(PluginCommand)),
     written |-> <<>>]

\* self.tasks[header].start / run / stop (cmd, length, frame): Tasks.start
\* and Tasks.stop call run
TaskMethod(cnt, self, header, cmd, length, frame, oc) ==
    IF self.kind = "Multiline"
    THEN MultilineRun(cnt, self, header, cmd, length, frame)
    ELSE IF self.kind = "task_write_vin" THEN WriteVinRun(self)
    ELSE PluginRun(self, cmd, oc)

\* self.tasks[header].__module__[12:]
TaskName(kind) == IF kind = "Multiline" THEN <<"">> ELSE <<kind>>

\* the completion is not counted
account_taskSkip(cnt, tsk, header) == cnt

\* Elm.account_task
account_task(cnt, tsk, header) ==
    IF ~Has(tsk, header) THEN cnt
    ELSE Incr(cnt, TaskName(tsk[header].kind))

(***************************************************************************)
(* Elm.task_action.  ctx is the state handle_request works on: counters,   *)
(* tasks, the texts written so far, the task method calls made so far, the *)
(* catalog entries hit, the command given to the catalog scan and whether  *)
(* an exception is leaving handle_request.  The result is [ctx, ret].      *)
(***************************************************************************)
CallRecord(self, header, method, cmd, length, frame, r) ==
    [kind |-> self.kind, born |-> self.born, method |-> method,
     header |-> header, cmd |-> cmd, length |-> length,
     frame |-> frame, before |-> self, after |-> r.self, ret |-> r.ret,
     written |-> r.written]

\* a task that signals TERMINATE is accounted and kept
TaskActionEndKeep(ctx, header, r, render) ==
    IF render.raised
    THEN [ctx |-> [ctx EXCEPT !.raised = TRUE], ret |-> r.ret]
    ELSE IF r.ret.r_task = TERMINATE
    THEN [ctx |-> [ctx EXCEPT
                     !.written = @ \o render.written,
                     !.counters = account_task(@, ctx.tasks, header)],
          ret |-> r.ret]
    ELSE [ctx |-> [ctx EXCEPT !.written = @ \o render.written], ret |-> r.ret]

\* task_action, lines 1330-1340: render is the result of the write of lines
\* 1320-1329
TaskActionEnd(ctx, header, r, render) ==
    IF render.raised
    THEN [ctx |-> [ctx EXCEPT !.raised = TRUE], ret |-> r.ret]
    ELSE IF r.ret.r_task = TERMINATE
    THEN [ctx |-> [ctx EXCEPT
                     !.written = @ \o render.written,
                     !.counters = account_task(@, ctx.tasks, header),
                     !.tasks = Del(@, header)],
          ret |-> r.ret]
    ELSE [ctx |-> [ctx EXCEPT !.written = @ \o render.written], ret |-> r.ret]

\* the task that raised is kept
TaskRaisedKeep(ctx, header) == [ctx |-> ctx, ret |-> TASK_ERROR]

\* task_action, lines 1308-1318: the task method raised an exception
TaskRaised(ctx, header) ==
    [ctx |-> [ctx EXCEPT !.tasks = Del(@, header)], ret |-> TASK_ERROR]

\* the response of a task method is never rendered by task_action
TaskActionResultSilent(ctx, header, r) ==
    IF r.ret.raised THEN TaskRaised(ctx, header)
    ELSE TaskActionEnd([ctx EXCEPT !.tasks = Put(@, header, r.self),
                                   !.written = @ \o r.written],
                       header, r, NoRender)

\* task_action, lines 1304-1340: r is the result of the task method
TaskActionResult(ctx, header, r) ==
    IF r.ret.raised THEN TaskRaised(ctx, header)
    ELSE TaskActionEnd([ctx EXCEPT !.tasks = Put(@, header, r.self),
                                   !.written = @ \o r.written],
                       header, r,
                       IF IsSome(r.ret.r_cont) /\ IsSome(r.ret.r_cmd)
                       THEN handle_response(ctx.counters, Get(r.ret.r_cmd), header,
                                            Some(r.self.request))
                       ELSE NoRender)

TaskActionCall(ctx, self, header, method, cmd, length, frame, r) ==
    TaskActionResult(
        [ctx EXCEPT !.calls = Append(@, CallRecord(self, header, method, cmd,
                                                   length, frame, r))],
        header, r)

task_action(ctx, header, method, cmd, length, frame, oc) ==
    TaskActionCall(ctx, ctx.tasks[header], header, method, cmd, length, frame,
                   TaskMethod(ctx.counters, ctx.tasks[header], header, cmd,
                              length, frame, oc))

(***************************************************************************)
(* The message catalog (ObdMessage of obd_message.py): scenario name ->    *)
(* ordered list of <<key, entry>>.  An optional field of an entry is None  *)
(* when the entry does not have it.  Exec is an effect on the session:     *)
(* "caf" and "cfc" store the flag given by the sixth character of the      *)
(* command, "sh" stores the text after the fourth character as header, "h" *)
(* stores the flag given by the fourth character as cmd_use_header, and    *)
(* "reset" calls Elm.reset.                                                *)
(***************************************************************************)
Entry(Request, Header, Priority, Action, Task, Exec, Response) ==
    [Request |-> Request, Header |-> Header, Priority |-> Priority,
     Action |-> Action, Task |-> Task, Exec |-> Exec, Response |-> Response]

\* '<answer>' + ten bytes + '</answer>'
AnswerLong ==
    <<[tag |-> "answer",
       text |-> <<"6", "2", "1", "0", "0", "1", "0", "2", "0", "3", "0", "4",
                  "0", "5", "0", "6", "0", "7", "0", "8">>]>>

ObdMessage ==
    [default |->
        <<<<"WRITE_VIN", Entry(<<"2", "E", "F", "1", "9", "0">>, None, None, None,
                               Some("task_write_vin"), None, Some(Some(ELM_R_OK)))>>,
          <<"TESTER", Entry(<<"3", "E">>, None, None, None,
                            Some("task_plugin"), None, Some(Some(ST(<<"7", "E">>))))>>,
          <<"PID_0100", Entry(<<"0", "1", "0", "0", "$">>, Some(ECU_ADDR_E), None, None,
                              None, None, Some(Some(ST(<<"4", "1", "0", "0">>))))>>,
          <<"SKIP_09", Entry(<<"0", "9">>, None, None, Some("skip"),
                             None, None, Some(Some(ST(<<"4", "9">>))))>>,
          <<"D_X", Entry(<<"0", "9", "0", "0", "$">>, None, None, None,
                         None, None, Some(Some(ST(<<"D", "0">>))))>>,
          <<"SAME", Entry(<<"0", "9", "0", "2", "$">>, None, None, None,
                          None, None, Some(Some(ST(<<"D", "2">>))))>>,
          <<"P_NONE", Entry(<<"0", "A">>, None, None, None,
                            None, None, Some(Some(ST(<<"B", "0">>))))>>,
          <<"P_5", Entry(<<"0", "A", "0", "0", "$">>, None, Some(5), None,
                         None, None, Some(Some(ST(<<"B", "5">>))))>>,
          <<"P_5B", Entry(<<"0", "A">>, None, Some(5), None,
                          None, None, Some(Some(ST(<<"B", "6">>))))>>,
          <<"UDS_LONG", Entry(<<"2", "2", "1", "0", "$">>, None, None, None,
                              None, None, Some(Some(AnswerLong)))>> >>,
     AT |->
        <<<<"AT_CAF", Entry(<<"A", "T", "C", "A", "F">>, None, None, None,
                            None, Some("caf"), Some(Some(ELM_R_OK)))>>,
          <<"AT_CFC", Entry(<<"A", "T", "C", "F", "C">>, None, None, None,
                            None, Some("cfc"), Some(Some(ELM_R_OK)))>>,
          <<"AT_SH", Entry(<<"A", "T", "S", "H">>, None, None, None,
                           None, Some("sh"), Some(Some(ELM_R_OK)))>>,
          <<"A_X", Entry(<<"0", "9", "0", "0", "$">>, None, None, None,
                         None, None, Some(Some(ST(<<"A", "0">>))))>>,
          <<"SAME", Entry(<<"0", "9", "0", "2", "$">>, None, None, None,
                          None, None, Some(Some(ST(<<"A", "2">>))))>>,
          <<"AT_Z", Entry(<<"A", "T", "Z", "$">>, None, None, None,
                          None, Some("reset"), Some(Some(ELM_R_OK)))>>,
          <<"AT_H", Entry(<<"A", "T", "H">>, None, None, None,
                          None, Some("h"), Some(Some(ELM_R_OK)))>> >>,
     car |->
        <<<<"C_X", Entry(<<"0", "9", "0", "0", "$">>, None, None, None,
                         None, None, Some(Some(ST(<<"C", "0">>))))>>,
          <<"SAME", Entry(<<"0", "9", "0", "2", "$">>, None, None, None,
                          None, None, Some(Some(ST(<<"C", "2">>))))>> >>]

Scenarios == DOMAIN ObdMessage

RECURSIVE DictMerge(_, _)
\* {**a, **b} on ordered lists of <<key, value>>: a key of b that a has
\* keeps its place and takes b's value, a new key is appended
DictMerge(a, b) ==
    IF Len(b) = 0 THEN a
    ELSE LET kv == Head(b)
             a1 == IF \E i \in 1..Len(a) : a[i][1] = kv[1]
                   THEN [i \in 1..Len(a) |-> IF a[i][1] = kv[1] THEN kv ELSE a[i]]
                   ELSE Append(a, kv)
         IN  DictMerge(a1, Tail(b))

\* an entry without a priority comes first
PriorityOfFirst(val) == IF IsSome(val.Priority) THEN Get(val.Priority) ELSE 0

\* x[1]['Priority'] if 'Priority' in x[1] else 10
PriorityOf(val) == IF IsSome(val.Priority) THEN Get(val.Priority) ELSE 10

RECURSIVE StableInsert(_, _)
\* insert kv into the sorted list after the items of priority <= its own
StableInsert(sorted, kv) ==
    IF Len(sorted) = 0 THEN <<kv>>
    ELSE IF PriorityOf(Head(sorted)[2]) <= PriorityOf(kv[2])
    THEN <<Head(sorted)>> \o StableInsert(Tail(sorted), kv)
    ELSE <<kv>> \o sorted

RECURSIVE SortByPriority(_)
\* sorted(items, key=priority): stable
SortByPriority(items) ==
    IF Len(items) = 0 THEN <<>>
    ELSE StableInsert(SortByPriority(SubSeq(items, 1, Len(items) - 1)),
                      items[Len(items)])

\* Elm.setSortedOBDMsg for the scenario sc
setSortedOBDMsg(sc) ==
    IF "default" \in Scenarios /\ "AT" \in Scenarios
    THEN SortByPriority(DictMerge(DictMerge(ObdMessage["default"], ObdMessage["AT"]),
                                  ObdMessage[sc]))
    ELSE SortByPriority(ObdMessage[sc])

\* the plugins found by Elm.run in the plugin directory
LoadedPlugins == {"task_write_vin", "task_plugin"}

\* self.presets, as Elm.__init__ leaves it
presets == EmptyDict

\* no key is taken for a command counter
IsCmdKeyNever(k) == FALSE

\* k.startswith('cmd_')
IsCmdKey(k) == k[1] = "cmd_"

\* Elm.reset that starts from the presets and the defaults alone
resetWithClear(cnt, pre) ==
    Update(Put(Put(Put(EmptyDict, <<"ELM_PIDS_A">>, 0), <<"ELM_MIDS_A">>, 0),
               K_set_header, ECU_ADDR_E),
           pre)

\* Elm.reset with self.presets = pre: the counters after the reset
resetWith(cnt, pre) ==
    Update(Put(Put(Put([k \in {x \in DOMAIN cnt : ~IsCmdKey(x)} |-> cnt[k]],
                       <<"ELM_PIDS_A">>, 0), <<"ELM_MIDS_A">>, 0),
               K_set_header, ECU_ADDR_E),
           pre)

\* Elm.reset: the counters after the reset
reset(cnt) == resetWith(cnt, presets)

\* the task table is kept
reset_tasksKeep(tsk) == tsk

\* Elm.reset, line 301: the task table after the reset
reset_tasks(tsk) == EmptyDict

\* exec(val['Exec']); an exception of the statement is caught and logged
ExecEffect(cnt, cmd, e) ==
    IF e = "caf"
    THEN IF Len(cmd) >= 6 THEN Put(cnt, K_caf, cmd[6] = "1") ELSE cnt
    ELSE IF e = "cfc"
    THEN IF Len(cmd) >= 6 THEN Put(cnt, K_cfc, IF cmd[6] = "1" THEN 1 ELSE 0) ELSE cnt
    ELSE IF e = "sh" THEN Put(cnt, K_set_header, Drop(cmd, 4))
    ELSE IF e = "h"
    THEN IF Len(cmd) >= 4 THEN Put(cnt, K_use_header, cmd[4] = "1") ELSE cnt
    ELSE cnt

\* exec(val['Exec']) on the session ctx; "reset" is self.reset(0)
ExecSession(ctx, cmd, e) ==
    IF e = "reset"
    THEN [ctx EXCEPT !.counters = reset(@), !.tasks = reset_tasks(@), !.reset = TRUE]
    ELSE [ctx EXCEPT !.counters = ExecEffect(@, cmd, e)]

(***************************************************************************)
(* State                                                                   *)
(***************************************************************************)
VARIABLES
    counters,      \* self.counters
    tasks,         \* self.tasks: header -> task object
    plugins,       \* self.plugins: the names of the loaded plugins
    scenario,      \* self.scenario
    sortedOBDMsg,  \* self.sortedOBDMsg
    answer,        \* self.answer
    threadState,   \* self.threadState
    alive,         \* the worker thread is inside the loop of Elm.run
    last,          \* what the latest iteration of the worker loop did
    prev,          \* what the iteration before the latest did
    worker         \* where the worker thread is in an iteration of Elm.run

vars == <<counters, tasks, plugins, scenario, sortedOBDMsg, answer, threadState,
         alive, last, prev, worker>>

\* The worker between two iterations.  pc is its place in the loop of
\* Elm.run: "top" (line 611), "reading" (inside normalized_read_line, line
\* 618), "read" (the call returned, line 619), "request" (line 625),
\* "response" (handle_request returned a reply, line 642) or "exited"; cmd is
\* self.cmd, ret is what handle_request returned, and late tells that the
\* thread state was STOPPED or TERMINATED when the read returned.
Idle == [pc |-> "top", cmd |-> None, ret |-> None, late |-> FALSE]

max_req_timeout == 1440
K_req_timeout == <<"req_timeout">>

(***************************************************************************)
(* Elm.handle_request, lines 1402-1442: length and frame from the PCI byte *)
(* The result is [early, cmd, length, frame]; early is the return of       *)
(* (header, cmd, "") on a malformed prefix.                                *)
(***************************************************************************)
Parsed(cmd, length, frame) ==
    [early |-> FALSE, cmd |-> cmd, length |-> length, frame |-> frame]
ParseFailed(cmd) == [early |-> TRUE, cmd |-> cmd, length |-> None, frame |-> None]

\* lines 1427-1435: the First Frame; len_field is int(cmd[2:4], 16)
ParseFirstFrame(cmd, len_field) ==
    IF IsNone(len_field) THEN ParseFailed(cmd)
    ELSE Parsed(Drop(cmd, 4), len_field, Some(0))

\* a PCI byte above 16 stays in front of the command
ParseSizeKeepPCI(cmd, int_size, payload) ==
    IF IsNone(int_size) THEN ParseFailed(cmd)
    ELSE IF Len(payload) = 0 THEN ParseFailed(cmd)
    ELSE IF Get(int_size) < 16
    THEN IF Len(payload) < Get(int_size) * 2 THEN ParseFailed(cmd)
         ELSE Parsed(Take(payload, Get(int_size) * 2), int_size, None)
    ELSE IF Get(int_size) = 16
    THEN ParseFirstFrame(cmd, ParseInt16(SubSeq(cmd, 3, IF Len(cmd) < 4 THEN Len(cmd) ELSE 4)))
    ELSE Parsed(cmd, None,
                IF Get(int_size) > 32 THEN Some(Get(int_size) - 32) ELSE None)

\* a payload shorter than the size prefix declares is taken as it is
ParseSizeNoCheck(cmd, int_size, payload) ==
    IF IsNone(int_size) THEN ParseFailed(cmd)
    ELSE IF Get(int_size) < 16
    THEN Parsed(Take(payload, Get(int_size) * 2), int_size, None)
    ELSE IF Get(int_size) = 16
    THEN ParseFirstFrame(cmd, ParseInt16(SubSeq(cmd, 3, IF Len(cmd) < 4 THEN Len(cmd) ELSE 4)))
    ELSE Parsed(Drop(cmd, 2), None,
                IF Get(int_size) > 32 THEN Some(Get(int_size) - 32) ELSE None)

\* lines 1415-1439: int_size is int(size, 16)
ParseSize(cmd, int_size, payload) ==
    IF IsNone(int_size) THEN ParseFailed(cmd)
    ELSE IF Len(payload) = 0 THEN ParseFailed(cmd)
    ELSE IF Get(int_size) < 16
    THEN IF Len(payload) < Get(int_size) * 2 THEN ParseFailed(cmd)
         ELSE Parsed(Take(payload, Get(int_size) * 2), int_size, None)
    ELSE IF Get(int_size) = 16
    THEN ParseFirstFrame(cmd, ParseInt16(SubSeq(cmd, 3, IF Len(cmd) < 4 THEN Len(cmd) ELSE 4)))
    ELSE Parsed(Drop(cmd, 2), None,
                IF Get(int_size) > 32 THEN Some(Get(int_size) - 32) ELSE None)

ParsePCI(cnt, cmd) ==
    IF Has(cnt, K_caf) /\ cnt[K_caf] = FALSE
       /\ Take(cmd, 2) # <<"A", "T">> /\ is_hex_sp(Take(cmd, 2))
    THEN ParseSize(cmd, ParseInt16(Take(cmd, 2)), Drop(cmd, 2))
    ELSE Parsed(cmd, None, None)

\* Elm.handle_request, lines 1391-1400: the experimental cmd_fcsm mode.
\* The result is [counters, header, cmd]
Fcsm(cnt, header, cmd) ==
    IF Has(cnt, K_fcsm) /\ cnt[K_fcsm] = TRUE /\ Take(cmd, 2) # <<"A", "T">>
       /\ is_hex_sp(Take(cmd, 3))
    THEN [counters |-> Put(Put(Put(cnt, K_set_header, Take(cmd, 3)),
                               K_caf, FALSE), K_use_header, TRUE),
          header |-> Some(Take(cmd, 3)), cmd |-> Drop(cmd, 3)]
    ELSE [counters |-> cnt, header |-> header, cmd |-> cmd]

\* a header that Python finds true: not None and not ''
HeaderSet(header) == IsSome(header) /\ Len(Get(header)) > 0

\* what handle_request returns: (header, cmd, reply) and the session
Return(ctx, header, cmd, reply) ==
    [ctx |-> ctx, header |-> header, cmd |-> cmd, reply |-> reply]

(***************************************************************************)
(* Elm.handle_request, lines 1573-1602: the command is unknown.  What      *)
(* send_receive_forward returns is [ok, data]: False (no forwarding        *)
(* adapter is configured, or it is not connected) is FW_FALSE, None (no    *)
(* data) is FW_NONE, a received text t is FW_DATA(t).                      *)
(***************************************************************************)
FW_FALSE == [ok |-> FALSE, data |-> None]
FW_NONE == [ok |-> TRUE, data |-> None]
FW_DATA(t) == [ok |-> TRUE, data |-> Some(t)]

\* send_receive_forward does not return: an exception leaves it.  It
\* catches BrokenPipeError around sendall (lines 751-757) and socket.timeout
\* around recv (lines 758-766) and nothing else: another error of sendall or
\* recv, an error of the serial port (lines 733-737), of getaddrinfo (line
\* 689), or the AttributeError of self.sock_inet.setsockopt (line 695) when
\* the emulator has no server socket, propagates.
FW_RAISED == [ok |-> FALSE, data |-> None, raised |-> TRUE]

\* net_client cannot connect (lines 709-714): it calls self.terminate()
FW_REFUSED == [ok |-> FALSE, data |-> None, refused |-> TRUE]

FwRaises(fw) == "raised" \in DOMAIN fw

\* re.match('^' + lit + ' *\r', fw_data or "") is not None
FwMatch(lit, fw) ==
    /\ IsSome(fw.data)
    /\ \E n \in Len(lit) + 1 .. Len(Get(fw.data)) :
          /\ Take(Get(fw.data), Len(lit)) = lit
          /\ \A i \in Len(lit) + 1 .. n - 1 : Get(fw.data)[i] = " "
          /\ Get(fw.data)[n] = "\r"

\* an occurrence is counted once and no more
CountUnknownOnce(cnt, cmd) ==
    IF Has(cnt, K_unknown(cmd)) THEN cnt ELSE Incr(cnt, K_unknown(cmd))

\* lines 1574-1576
CountUnknown(cnt, cmd) == Incr(cnt, K_unknown(cmd))

\* lines 1580-1589: ctx has the occurrence counted; fw is what
\* send_receive_forward returned; warned is the warning of line 1587
Forwarded(ctx, cmd, fw) ==
    IF FwRaises(fw) THEN [ctx EXCEPT !.fw = Some(fw), !.raised = TRUE]
    ELSE IF ~fw.ok THEN [ctx EXCEPT !.fw = Some(fw)]
    ELSE [ctx EXCEPT !.fw = Some(fw),
                     !.counters = Put(@, K_unknown(cmd) \o <<"_R">>, fw.data),
                     !.warned = /\ ~FwMatch(NO_DATA, fw)
                                /\ ~FwMatch(<<"?">>, fw)
                                /\ ctx.counters[K_unknown(cmd)] = 1]

\* every unknown command is answered NO DATA
UnknownNoData(env, ctx, header, cmd) ==
    Return([ctx EXCEPT !.counters = CountUnknown(@, cmd), !.unknown = TRUE],
           header, cmd, Some(ST(NO_DATA)))

Unknown(env, ctx, header, cmd) ==
    IF Len(cmd) = 0
    THEN Return([ctx EXCEPT !.counters = CountUnknown(@, cmd), !.unknown = TRUE],
                header, cmd, Some(<<>>))
    ELSE Return(Forwarded([ctx EXCEPT !.counters = CountUnknown(@, cmd), !.unknown = TRUE],
                          cmd, env.forward),
                header, cmd,
                IF len_hex(cmd) > 0 THEN Some(ST(NO_DATA)) ELSE Some(ELM_R_UNKNOWN))

(***************************************************************************)
(* Elm.handle_request, lines 1470-1572: the scan of the sorted catalog     *)
(* from its entry i on.  env is what the scan reads of the session:        *)
(* [msgs, plugins, answer, scenario, forward]; so is what the start method *)
(* of a plugin does.                                                       *)
(***************************************************************************)
\* lines 1474-1477
Matches(val, cnt, header, cmd) ==
    /\ ReMatch(val.Request, cmd)
    /\ ~(IsSome(val.Header) /\ HeaderSet(header)
         /\ Get(val.Header) # cnt[K_set_header])

\* lines 1478-1484
PidOf(key) == IF key # "" THEN <<key>> ELSE <<"UNKNOWN">>

\* the match is noted, the counter is left alone
HitSilent(ctx, pid) == [ctx EXCEPT !.hits = Append(@, pid)]

Hit(ctx, pid) == [ctx EXCEPT !.counters = Incr(@, pid), !.hits = Append(@, pid)]

\* lines 1532-1572: Exec, then the response of the entry
Respond(val, ctx, header, cmd) ==
    Return(IF IsSome(val.Exec) THEN ExecSession(ctx, cmd, Get(val.Exec)) ELSE ctx,
           header, cmd,
           IF IsSome(val.Response) THEN Get(val.Response) ELSE Some(ELM_R_OK))

\* lines 1523-1526: ta is the result of task_action for start
AfterStart(val, header, cmd, ta) ==
    IF ta.ctx.raised THEN Return(ta.ctx, header, cmd, None)
    ELSE IF IsNone(ta.ret.r_cont) THEN Return(ta.ctx, header, cmd, ta.ret.r_cmd)
    ELSE Respond(val, ta.ctx, header, Get(ta.ret.r_cont))

\* lines 1505-1510: the task that is deleted because the header has one
Evicted(evicted, tsk, header) ==
    IF Has(tsk, header) THEN Append(evicted, tsk[header]) ELSE evicted

\* the task on the header is kept
InstallTaskKeep(tsk, header, task) ==
    IF Has(tsk, header) THEN tsk ELSE Put(tsk, header, task)

\* lines 1505-1513: a task on the header is deleted, the new one is stored
InstallTask(tsk, header, task) == Put(Del(tsk, header), header, task)

\* lines 1496-1572: the entry is selected; ctx has its hit counted
Select(env, ctx, pid, val, header, cmd, length, frame, so) ==
    IF Has(env.answer, pid) THEN Return(ctx, header, cmd, Some(env.answer[pid]))
    ELSE IF IsSome(val.Task)
    THEN IF Get(val.Task) \in env.plugins
         THEN AfterStart(val, header, cmd,
                  task_action([ctx EXCEPT !.evicted = Evicted(@, ctx.tasks, header),
                                   !.tasks = InstallTask(@, header,
                                   NewTask(Get(val.Task), header, cmd, ctx.counters[K_commands]))],
                              header, "start", cmd, length, frame, so))
         ELSE Return(ctx, header, cmd, None)
    ELSE Respond(val, ctx, header, cmd)

RECURSIVE Scan(_, _, _, _, _, _, _, _)
Scan(env, ctx, i, header, cmd, length, frame, so) ==
    IF i > Len(env.msgs) THEN Unknown(env, ctx, header, cmd)
    ELSE IF ~Matches(env.msgs[i][2], ctx.counters, header, cmd)
            \/ env.msgs[i][2].Action = Some("skip")
    THEN Scan(env,
              IF Matches(env.msgs[i][2], ctx.counters, header, cmd)
              THEN Hit(ctx, PidOf(env.msgs[i][1])) ELSE ctx,
              i + 1, header, cmd, length, frame, so)
    ELSE Select(env, Hit(ctx, PidOf(env.msgs[i][1])), PidOf(env.msgs[i][1]),
                env.msgs[i][2], header, cmd, length, frame, so)

(***************************************************************************)
(* Elm.handle_request.  ro is what the run or stop method of a plugin task *)
(* does, so what the start method of a plugin task does.  The result is    *)
(* [ctx, header, cmd, reply]; reply is the third element of the returned   *)
(* tuple (None, or a response template).                                   *)
(***************************************************************************)
NewCtx(cnt, tsk) ==
    [counters |-> cnt, tasks |-> tsk, written |-> <<>>, calls |-> <<>>,
     hits |-> <<>>, evicted |-> <<>>, resolved |-> None, raised |-> FALSE,
     reset |-> FALSE, warned |-> FALSE, unknown |-> FALSE, fw |-> None]

\* what the part of handle_request before the scan leaves: either the
\* return value, or the command to resolve
Returned(r) == [done |-> TRUE, r |-> r, length |-> None, frame |-> None]
ToResolve(ctx, header, cmd, length, frame) ==
    [done |-> FALSE, r |-> Return(ctx, header, cmd, None),
     length |-> length, frame |-> frame]

\* lines 1452-1457 and 1463-1468: ta is the result of task_action
AfterTask(header, p, running, ta) ==
    IF ta.ctx.raised THEN Returned(Return(ta.ctx, header, p.cmd, None))
    ELSE IF IsNone(ta.ret.r_cont)
    THEN Returned(Return(IF running THEN ta.ctx
                         ELSE [ta.ctx EXCEPT !.tasks = Del(@, header)],
                         header, p.cmd, ta.ret.r_cmd))
    ELSE IF running THEN ToResolve(ta.ctx, header, Get(ta.ret.r_cont), None, None)
    ELSE ToResolve([ta.ctx EXCEPT !.tasks = Del(@, header)], header,
                   Get(ta.ret.r_cont), p.length, p.frame)

\* lines 1448-1468: the task of the header runs, or is stopped
ActiveTask(ctx, header, p, running, ro) ==
    AfterTask(header, p, running,
              task_action(ctx, header, IF running THEN "run" ELSE "stop",
                          p.cmd, p.length, p.frame, ro))

\* lines 1444-1468
ManageTasks(ctx, header, p, ro) ==
    IF Has(ctx.tasks, header) THEN ActiveTask(ctx, header, p, len_hex(p.cmd) > 0, ro)
    ELSE ToResolve(ctx, header, p.cmd, p.length, p.frame)

\* lines 1470-1602
Resolve(env, t, so) ==
    IF t.done THEN t.r
    ELSE Scan(env, [t.r.ctx EXCEPT !.resolved = Some(t.r.cmd)], 1,
              t.r.header, t.r.cmd, t.length, t.frame, so)

\* lines 1445-1447: a First Frame on a header without task creates the
\* Multiline task
CreateMultiline(ctx, header, p) ==
    IF ~Has(ctx.tasks, header) /\ IsSome(p.length) /\ IsSome(p.frame)
    THEN [ctx EXCEPT !.tasks = Put(@, header,
              NewTask("Multiline", header, p.cmd, ctx.counters[K_commands]))]
    ELSE ctx

HandleParsed(env, ctx, header, p, ro, so) ==
    IF p.early THEN Return(ctx, header, p.cmd, Some(<<>>))
    ELSE Resolve(env, ManageTasks(CreateMultiline(ctx, header, p), header, p, ro), so)

HandleFramed(env, tsk, f, ro, so) ==
    HandleParsed(env, NewCtx(f.counters, tsk), f.header,
                 ParsePCI(f.counters, f.cmd), ro, so)

HandleCounted(env, cnt, tsk, cmd, ro, so) ==
    IF env.scenario \notin Scenarios
    THEN Return(NewCtx(cnt, tsk),
                IF Has(cnt, K_set_header) THEN Some(cnt[K_set_header]) ELSE None,
                cmd, Some(<<>>))
    ELSE HandleFramed(env, tsk,
             Fcsm(cnt, IF Has(cnt, K_set_header) THEN Some(cnt[K_set_header]) ELSE None,
                  cmd),
             ro, so)

handle_request(env, cnt, tsk, line, ro, so) ==
    HandleCounted(env, Incr(cnt, K_commands), tsk, Sanitize(line), ro, so)

(***************************************************************************)
(* The worker: Elm.run                                                     *)
(***************************************************************************)
Count(cnt, k) == IF Has(cnt, k) THEN cnt[k] ELSE 0

\* Elm.validate: re.match(ELM_VALID_CHARS, cmd) with the pattern
\* [a-zA-Z0-9 \n\r]* matches a (possibly empty) prefix of cmd
ValidChars ==
    {"0", "1", "2", "3", "4", "5", "6", "7", "8", "9", " ", "\n", "\r"}
    \cup DOMAIN UpperTable \cup {UpperTable[c] : c \in DOMAIN UpperTable}

validate(cmd) == \E n \in 0..Len(cmd) : \A i \in 1..n : cmd[i] \in ValidChars

\* re.match('^ *$', cmd)
IsBlank(cmd) == \A i \in 1..Len(cmd) : cmd[i] = " "

NoStep ==
    [line |-> <<>>, cmd |-> <<>>, handled |-> FALSE,
     pre_counters |-> EmptyDict, pre_tasks |-> EmptyDict,
     calls |-> <<>>, hits |-> <<>>, evicted |-> <<>>, resolved |-> None,
     written |-> <<>>, header |-> None, request |-> <<>>, reply |-> None, raised |-> FALSE,
     returned |-> None,
     reset |-> FALSE, warned |-> FALSE, unknown |-> FALSE, fw |-> None]

\* lines 633-647: the answer of handle_request is logged, and written by
\* handle_response unless it is None; final is what handle_response did
IterationEnd(line, cmd, cnt1, tsk, r, final) ==
    [counters |-> r.ctx.counters, tasks |-> r.ctx.tasks,
     alive |-> ~final.raised,
     last |-> [line |-> line, cmd |-> cmd, handled |-> TRUE,
               pre_counters |-> cnt1, pre_tasks |-> tsk,
               calls |-> r.ctx.calls, hits |-> r.ctx.hits,
               evicted |-> r.ctx.evicted,
               resolved |-> r.ctx.resolved,
               written |-> r.ctx.written \o final.written,
               returned |-> final.returned,
               header |-> r.header, request |-> r.cmd,
               reply |-> IF r.ctx.raised THEN None ELSE r.reply,
               raised |-> r.ctx.raised,
               reset |-> r.ctx.reset, warned |-> r.ctx.warned,
               unknown |-> r.ctx.unknown, fw |-> r.ctx.fw]]

\* lines 633-647: r is what handle_request returned
IterationReply(line, cmd, cnt1, tsk, r) ==
    IterationEnd(line, cmd, cnt1, tsk, r,
                 IF ~r.ctx.raised /\ IsSome(r.reply)
                 THEN handle_response(r.ctx.counters, Get(r.reply), r.header, Some(r.cmd))
                 ELSE NoRender)

\* lines 632-647
IterationCmd(env, cnt1, tsk, line, cmd, ro, so) ==
    IF ~validate(cmd)
    THEN [counters |-> cnt1, tasks |-> tsk, alive |-> TRUE,
          last |-> [NoStep EXCEPT !.line = line, !.cmd = cmd,
                                  !.pre_counters = cnt1, !.pre_tasks = tsk]]
    ELSE IterationReply(line, cmd, cnt1, tsk,
                        handle_request(env, cnt1, tsk, cmd, ro, so))

\* a blank line is stored as the latest command
IterationReadStore(env, cnt0, tsk, line, ro, so) ==
    IF IsBlank(line) /\ Has(cnt0, K_last_cmd)
    THEN IterationCmd(env, Put(cnt0, K_last_cmd, line), tsk, line, cnt0[K_last_cmd], ro, so)
    ELSE IterationCmd(env, Put(cnt0, K_last_cmd, line), tsk, line, line, ro, so)

\* lines 625-631: a blank line repeats the latest command
IterationRead(env, cnt0, tsk, line, ro, so) ==
    IF IsBlank(line) /\ Has(cnt0, K_last_cmd)
    THEN IterationCmd(env, cnt0, tsk, line, cnt0[K_last_cmd], ro, so)
    ELSE IterationCmd(env, Put(cnt0, K_last_cmd, line), tsk, line, line, ro, so)

\* One iteration of the loop of Elm.run (lines 617-649) on the line that
\* normalized_read_line returned (which sets req_timeout, lines 922-933).
\* The result is the new value of [counters, tasks, alive, last].
Iteration(env, cnt, tsk, line, ro, so) ==
    IterationRead(env,
                  IF Has(cnt, K_req_timeout) THEN cnt
                  ELSE Put(cnt, K_req_timeout, max_req_timeout),
                  tsk, line, ro, so)

(***************************************************************************)
(* Construction: Elm.__init__ (set_defaults, setSortedOBDMsg, reset) and   *)
(* __enter__                                                               *)
(***************************************************************************)
Init ==
    /\ counters = reset(Update(EmptyDict, presets))
    /\ tasks = EmptyDict
    /\ plugins = {}
    /\ scenario = "default"
    /\ sortedOBDMsg = setSortedOBDMsg("default")
    /\ answer = EmptyDict
    /\ threadState = "STARTING"
    /\ alive = FALSE
    /\ last = NoStep
    /\ prev = NoStep
    /\ worker = Idle

\* Elm.run, lines 546-610: the plugins are loaded, the loop is entered
RunStart ==
    /\ threadState = "STARTING"
    /\ plugins' = LoadedPlugins
    /\ threadState' = "ACTIVE"
    /\ alive' = TRUE
    /\ UNCHANGED <<counters, tasks, scenario, sortedOBDMsg, answer, last, prev, worker>>

\* fw is what send_receive_forward returns in the iteration
EnvWith(fw) == [msgs |-> sortedOBDMsg, plugins |-> plugins, answer |-> answer,
                scenario |-> scenario, forward |-> fw]

\* no forwarding adapter is configured
Env == EnvWith(FW_FALSE)

IsPluginKind(kind) == kind \notin {"Multiline", "task_write_vin"}

\* the outcomes to consider for the run or stop method of a plugin task:
\* they matter only when a plugin task is stored
RunChoices(outcomes) ==
    IF \E h \in DOMAIN tasks : IsPluginKind(tasks[h].kind)
    THEN outcomes ELSE {AnyOutcome}

\* the outcomes to consider for the start method of a plugin task: they
\* matter only when the request gets to start one
StartsPlugin(calls) ==
    \E i \in 1..Len(calls) : calls[i].method = "start" /\ IsPluginKind(calls[i].kind)

StartChoices(line, ro, outcomes) ==
    IF StartsPlugin(Iteration(Env, counters, tasks, line, ro, AnyOutcome).last.calls)
    THEN outcomes ELSE {AnyOutcome}

\* the worker's variables take the values an iteration computed
Becomes(n) ==
    /\ counters' = n.counters
    /\ tasks' = n.tasks
    /\ alive' = n.alive
    /\ last' = n.last
    /\ prev' = last

\* Elm.run, lines 611-649: one line is read and processed to completion;
\* outcomes is what the methods of the plugin tasks may do
RunLineWith(line, bound, outcomes) ==
    /\ threadState = "ACTIVE"
    /\ alive
    /\ Count(counters, K_commands) < bound
    /\ \E ro \in RunChoices(outcomes) : \E so \in StartChoices(line, ro, outcomes) :
          Becomes(Iteration(Env, counters, tasks, line, ro, so))
    /\ UNCHANGED <<plugins, scenario, sortedOBDMsg, answer, threadState, worker>>

RunLine(line, bound) == RunLineWith(line, bound, PluginOutcomes)

\* Elm.run, lines 611-649, with a forwarding adapter configured: fw is what
\* send_receive_forward returns to handle_request
RunLineForward(line, bound, fw) ==
    /\ threadState = "ACTIVE"
    /\ alive
    /\ Count(counters, K_commands) < bound
    /\ Becomes(Iteration(EnvWith(fw), counters, tasks, line, AnyOutcome, AnyOutcome))
    /\ UNCHANGED <<plugins, scenario, sortedOBDMsg, answer, threadState, worker>>

\* read_from_device, lines 834-849, under normalized_read_line and the loop
\* of Elm.run: the network client closed the connection; the session is
\* reset, the line is given up and the loop goes on
Disconnect ==
    /\ threadState = "ACTIVE"
    /\ alive
    /\ ~last.reset
    /\ counters' = reset(IF Has(counters, K_req_timeout) THEN counters
                         ELSE Put(counters, K_req_timeout, max_req_timeout))
    /\ tasks' = reset_tasks(tasks)
    /\ last' = [NoStep EXCEPT !.pre_counters = counters, !.pre_tasks = tasks,
                              !.reset = TRUE]
    /\ prev' = last
    /\ UNCHANGED <<plugins, scenario, sortedOBDMsg, answer, threadState, alive, worker>>

\* Elm.setSortedOBDMsg(sc), called before the worker starts
SetScenario(sc) ==
    /\ threadState = "STARTING"
    /\ scenario # sc
    /\ scenario' = sc
    /\ sortedOBDMsg' = setSortedOBDMsg(sc)
    /\ UNCHANGED <<counters, tasks, plugins, answer, threadState, alive, last, prev, worker>>

\* Elm.run, lines 641-647: handle_request returned (header, request, resp)
\* and the answer is rendered and written by handle_response
RunResponse(header, request, resp) ==
    /\ threadState = "ACTIVE"
    /\ alive
    /\ ~last.handled
    /\ With(handle_response(counters, resp, header, Some(request)), LAMBDA r :
          /\ alive' = ~r.raised
          /\ last' = [NoStep EXCEPT !.handled = TRUE, !.pre_counters = counters,
                                    !.pre_tasks = tasks, !.header = header,
                                    !.request = request, !.reply = Some(resp),
                                    !.written = r.written, !.returned = r.returned])
    /\ prev' = last
    /\ UNCHANGED <<counters, tasks, plugins, scenario, sortedOBDMsg, answer, threadState, worker>>

(***************************************************************************)
(* Input lines                                                             *)
(***************************************************************************)
L_ATCAF0 == <<"a", "t", " ", "c", "a", "f", "0">>
L_ATCFC0 == <<"a", "t", " ", "c", "f", "c", "0">>
L_FF == <<"1", "0", "0", "3", "A", "A">>
L_CF1 == <<"2", "1", "B", "B">>
L_CF2 == <<"2", "2", "C", "C", "D", "D">>
L_SF == <<"0", "2", "0", "1", "0", "0">>
L_PID == <<"0", "1", "0", "0">>
L_PLUGIN == <<"3", "E", "0", "0">>
L_VIN == <<"2", "E", "F", "1", "9", "0">>
L_FF12 == <<"1", "1", "0", "0", "A", "A">>
L_ATZ == <<"a", "t", " ", "z">>
L_ATH1 == <<"a", "t", " ", "h", "1">>
L_ATSH29 == <<"a", "t", " ", "s", "h", " ", "d", "a", "1", "0", "f", "1">>
L_ATSHBAD == <<"a", "t", " ", "s", "h", " ", "7", "t", "0">>
L_LONG == <<"2", "2", "1", "0">>
L_0900 == <<"0", "9", "0", "0">>
L_0902 == <<"0", "9", "0", "2">>
L_0905 == <<"0", "9", "0", "5">>
L_0A00 == <<"0", "a", "0", "0">>
L_0A01 == <<"0", "a", "0", "1">>
L_ATB == <<"a", "t", " ", "b">>
L_ODD == <<"0", "1", "0">>
L_EMPTY == <<>>
L_SHORT == <<"0", "3", "0", "1">>
L_BARE == <<"0", "2">>

L_BLANK == <<" ", " ">>
L_INVALID == <<"0", "1", "0", "0", "!">>

L_CFBARE == <<"2", "1">>

(***************************************************************************)
(* Spec: a client that sends plain requests, requests for the task plugins *)
(* and, once it has switched the PCI byte on, frames                       *)
(***************************************************************************)
Lines == {L_ATCAF0, L_FF, L_PID, L_PLUGIN, L_VIN}

Next ==
    \/ RunStart
    \/ \E line \in Lines : RunLine(line, MaxCommands)

Spec == Init /\ [][Next]_vars

(***************************************************************************)
(* SpecFrames: a client that sends frames in any order                     *)
(***************************************************************************)
FrameLines == {L_ATCAF0, L_FF, L_CF1, L_CF2, L_SF, L_FF12}

NextFrames ==
    \/ RunStart
    \/ \E line \in FrameLines : RunLine(line, MaxFrames)

SpecFrames == Init /\ [][NextFrames]_vars

(***************************************************************************)
(* SpecLong: a client that switches the PCI byte on, may switch the flow   *)
(* control off, and sends one long message: a First Frame declaring        *)
(* LongLength bytes and Consecutive Frames of one byte each.  After a      *)
(* frame it sends the frame of the next index, the frame after that one,   *)
(* or the frame whose PCI byte carries the index wrapped to 0.             *)
(***************************************************************************)
L_FFLONG == <<"1", "0">> \o Hex02(LongLength) \o <<"A", "A">>
L_WRAP == <<"2", "0", "B", "B">>
CF(i) == Hex02(32 + i) \o <<"B", "B">>

Collecting(h) == Has(tasks, h) /\ tasks[h].kind = "Multiline" /\ IsSome(tasks[h].frame)

LongLines ==
    IF ~Has(counters, K_caf) THEN {L_ATCAF0}
    ELSE IF Collecting(Some(counters[K_set_header]))
    THEN {CF(i) : i \in {Get(tasks[Some(counters[K_set_header])].frame),
                         Get(tasks[Some(counters[K_set_header])].frame) + 1}
                        \cap 1..MaxCF}
         \cup {L_WRAP}
    ELSE IF Has(counters, <<"">>) THEN {}
    ELSE {L_FFLONG} \cup (IF Has(counters, K_cfc) THEN {} ELSE {L_ATCFC0})

NextLong ==
    \/ RunStart
    \/ \E line \in LongLines : RunLine(line, MaxCommandsLong)

SpecLong == Init /\ [][NextLong]_vars

(***************************************************************************)
(* SpecPass: a client of the task plugins whose methods hand back another  *)
(* command for resolution                                                  *)
(***************************************************************************)
\* number of lines the worker reads in a behaviour of SpecPass
MaxPass == 4

PassLines == {L_PID, L_PLUGIN, L_VIN}

NextPass ==
    \/ RunStart
    \/ \E line \in PassLines : RunLineWith(line, MaxPass, PassOutcomes)

SpecPass == Init /\ [][NextPass]_vars

(***************************************************************************)
(* SpecReset: a client that sends frames and the adapter reset, and may    *)
(* close the connection                                                    *)
(***************************************************************************)
\* number of lines the worker reads in a behaviour of SpecReset
MaxReset == 4

ResetLines == {L_ATCAF0, L_FF, L_CF1, L_ATZ, L_0905}

NextReset ==
    \/ RunStart
    \/ \E line \in ResetLines : RunLine(line, MaxReset)
    \/ Disconnect

SpecReset == Init /\ [][NextReset]_vars

(***************************************************************************)
(* SpecCatalog: the catalog is sorted for the default scenario or for the  *)
(* scenario "car"; the client sends requests that several entries match    *)
(***************************************************************************)
\* number of lines the worker reads in a behaviour of SpecCatalog
MaxCatalog == 3

CatalogLines == {L_PID, L_0900, L_0902, L_0905, L_0A00, L_0A01, L_ATCAF0, L_ATSH29}

NextCatalog ==
    \/ \E sc \in Scenarios \ {"AT"} : SetScenario(sc)
    \/ RunStart
    \/ \E line \in CatalogLines : RunLine(line, MaxCatalog)

SpecCatalog == Init /\ [][NextCatalog]_vars

(***************************************************************************)
(* SpecUnknown: a client that sends commands the catalog does not have,    *)
(* with a forwarding adapter configured                                    *)
(***************************************************************************)
\* number of lines the worker reads in a behaviour of SpecUnknown
MaxUnknown == 3

UnknownLines == {L_PID, L_0905, L_ATB, L_ODD, L_EMPTY}

\* what the forwarding adapter may answer to the command cmd: it is not
\* connected; or, to whole bytes, nothing, NO DATA or data; or, to another
\* text, ?
ForwardAnswers(cmd) ==
    IF len_hex(cmd) > 0
    THEN {FW_FALSE, FW_NONE, FW_DATA(NO_DATA \o <<"\r">>),
          FW_DATA(<<"4", "1", "0", "5", "\r">>)}
    ELSE {FW_FALSE, FW_DATA(<<"?", " ", "\r">>)}

\* the forwarding adapter is asked only about an unknown command that is
\* not empty
ForwardChoices(line) ==
    With(Iteration(Env, counters, tasks, line, AnyOutcome, AnyOutcome).last,
         LAMBDA probe : IF IsSome(probe.fw) THEN ForwardAnswers(probe.request)
                        ELSE {FW_FALSE})

NextUnknown ==
    \/ RunStart
    \/ \E line \in UnknownLines : \E fw \in ForwardChoices(line) :
          RunLineForward(line, MaxUnknown, fw)

SpecUnknown == Init /\ [][NextUnknown]_vars

(***************************************************************************)
(* SpecRender: a client that sets a header of 29 bits or a header that is  *)
(* no number, switches the headers on, and asks for an answer of ten bytes *)
(* or sends a First Frame                                                  *)
(***************************************************************************)
\* number of lines the worker reads in a behaviour of SpecRender
MaxRender == 4

RenderLines == {L_ATH1, L_ATSH29, L_ATSHBAD, L_ATCAF0, L_LONG, L_FF}

NextRender ==
    \/ RunStart
    \/ \E line \in RenderLines : RunLine(line, MaxRender)

SpecRender == Init /\ [][NextRender]_vars

(***************************************************************************)
(* SpecShort: a client that switches the PCI byte on and sends frames, a   *)
(* plain request, and requests shorter than their size prefix declares     *)
(***************************************************************************)
\* number of lines the worker reads in a behaviour of SpecShort
MaxShort == 4

ShortLines == {L_ATCAF0, L_FF, L_SF, L_PID, L_SHORT, L_BARE}

NextShort ==
    \/ RunStart
    \/ \E line \in ShortLines : RunLine(line, MaxShort)

SpecShort == Init /\ [][NextShort]_vars

(***************************************************************************)
(* The renderer on its own.  The session is in the loop of the worker with *)
(* some configuration of the adapter, and one answer is rendered.          *)
(***************************************************************************)
Chars(a, b, c) == <<a, b, c>>

\* the counters after the commands that set the line-feed style lf, the
\* spacing spc, the header flag hdr, the response-address filter cra and
\* the header sh (None: the command was not sent)
Configured(lf, spc, hdr, cra, sh) ==
    With(Put(reset(Update(EmptyDict, presets)), K_req_timeout, max_req_timeout),
         LAMBDA c0 :
    With(IF IsSome(lf) THEN Put(c0, K_linefeeds, Get(lf)) ELSE c0, LAMBDA c1 :
    With(IF IsSome(spc) THEN Put(c1, K_spaces, Get(spc)) ELSE c1, LAMBDA c2 :
    With(IF IsSome(hdr) THEN Put(c2, K_use_header, Get(hdr)) ELSE c2, LAMBDA c3 :
    With(IF IsSome(cra) THEN Put(c3, K_cra, Get(cra)) ELSE c3, LAMBDA c4 :
         IF IsSome(sh) THEN Put(c4, K_set_header, Get(sh)) ELSE c4)))))

Options(S) == {None} \cup {Some(x) : x \in S}

\* the state of a session whose counters are cnt, inside the worker loop
InitWith(cnt) ==
    /\ counters = cnt
    /\ tasks = EmptyDict
    /\ plugins = LoadedPlugins
    /\ scenario = "default"
    /\ sortedOBDMsg = setSortedOBDMsg("default")
    /\ answer = EmptyDict
    /\ threadState = "ACTIVE"
    /\ alive = TRUE
    /\ last = NoStep
    /\ prev = NoStep
    /\ worker = Idle

H_7E0 == Chars("7", "E", "0")
H_7T0 == Chars("7", "T", "0")
H_0E0 == Chars("0", "E", "0")
H_7DF == Chars("7", "D", "F")
H_29 == Chars("D", "A", "1") \o Chars("0", "F", "1")
H_32 == <<"1", "8">> \o Chars("D", "A", "F") \o Chars("1", "1", "0")

Node(tag, text) == [tag |-> tag, text |-> text]

T_STR == ST(<<"4", "1", " ", "0", "0">>)
T_WRITELN == <<Node("writeln", <<"O", "K">>)>>
T_SPACE == <<Node("space", <<"4", "1">>), Node("string", <<"0", "0">>)>>
T_EXEC == <<Node("string", <<"A">>), Node("exec", <<"n", "o", "p", "(", ")">>),
            Node("string", <<"B">>)>>
T_EXEC_END == <<Node("string", <<"A">>), Node("exec", <<>>)>>
T_EVAL == <<Node("eval", <<" ", "'", "V", "'">>)>>
T_EVAL_NONE == <<Node("eval", <<"n", "o", "p", "(", ")">>)>>
T_ANSWER == <<Node("answer", <<"4", "1", "0", "0">>)>>
T_ANSWER_BAD == <<Node("answer", <<"6", "G">>)>>
T_FLOW_BAD == <<Node("flow", <<"6", "G">>)>>
T_POS == <<Node("pos_answer", <<>>)>>
T_NEG == <<Node("neg_answer", <<"3", "1">>)>>
T_TRIPLE == <<Node("header", Chars("7", "E", "8")), Node("size", <<"0", "2">>),
              Node("data", <<"4", "1", " ", "0", "0">>)>>
T_SUBD == <<Node("header", Chars("7", "E", "8")), Node("size", <<"0", "2">>),
            Node("subd", <<"4", "1", " ", "0", "0">>)>>
T_TRIPLE_OTHER == <<Node("header", Chars("7", "E", "9")), Node("size", <<"0", "2">>),
                    Node("data", <<"4", "1", " ", "0", "0">>)>>
T_TRIPLE_SIZE == <<Node("header", Chars("7", "E", "8")), Node("size", <<"0", "3">>),
                   Node("data", <<"4", "1", " ", "0", "0">>)>>
T_TRIPLE_CUT == <<Node("header", Chars("7", "E", "8")), Node("size", <<"0", "2">>)>>
T_STR_TRIPLE_SIZE == T_STR \o T_TRIPLE_SIZE
T_UNKNOWN == <<Node("string", <<"A">>), Node("blink", <<"X">>), Node("string", <<"B">>)>>
T_ONLY_UNKNOWN == <<Node("blink", <<"X">>)>>
T_MALFORMED == <<Node("string", <<"A">>), Node("", <<"<", "b", ">">>)>>

Templates ==
    {<<>>, T_STR, T_WRITELN, T_SPACE, T_EXEC, T_EXEC_END, T_EVAL, T_EVAL_NONE,
     T_ANSWER, T_ANSWER_BAD, T_FLOW_BAD, T_POS, T_NEG, T_TRIPLE, T_SUBD,
     T_TRIPLE_OTHER, T_TRIPLE_SIZE, T_TRIPLE_CUT, T_STR_TRIPLE_SIZE, T_UNKNOWN,
     T_ONLY_UNKNOWN, T_MALFORMED}

\* the requests the answers are rendered for: 0100, a text that is no
\* hexadecimal number, and no request
Requests == {<<"0", "1", "0", "0">>, <<"0", "1", "0", "G">>, <<>>}

\* handle_request, lines 1378-1380
HeaderOf(cnt) == IF Has(cnt, K_set_header) THEN Some(cnt[K_set_header]) ELSE None

\* the keys of nl_type, lines 1084-1091
LinefeedStyles == 0..5

InitResponse ==
    \E lf \in Options(LinefeedStyles), spc \in Options({0}), hdr \in Options({TRUE}),
       cra \in Options({Chars("7", "X", "8")}), sh \in Options({H_7T0}) :
        InitWith(Configured(lf, spc, hdr, cra, sh))

NextResponse ==
    \E resp \in Templates, request \in Requests :
        RunResponse(HeaderOf(counters), request, resp)

SpecResponse == InitResponse /\ [][NextResponse]_vars

(***************************************************************************)
(* SpecUds: the UDS encoder under the renderer.  The session has a header  *)
(* of 11 or 29 bits, headers on or off, spaces on or off; one answer,      *)
(* positive answer or negative answer is rendered.                         *)
(***************************************************************************)
\* the longest payload rendered, in bytes
MaxPayload == 17

Bytes == 0..255

\* a payload of n bytes, as hexadecimal text
Payload(n) == JoinHex([k \in 1..n |-> (17 * k + 81) % 256], <<>>)

\* the request of the service byte b: the service and the identifier F190
Request(b) == Hex02(b) \o <<"F", "1", "9", "0">>

UdsHeaders == {H_0E0, Chars("0", "0", "0"), Chars("0", "F", "8"), H_7DF, H_29, H_32}

InitUds ==
    \E spc \in Options({0}), hdr \in Options({TRUE, FALSE}), sh \in Options(UdsHeaders) :
        InitWith(Configured(None, spc, hdr, None, sh))

\* an answer or a positive answer to the service 0x22 with a payload of n
\* bytes; a positive or negative answer to any service byte
NextUds ==
    \/ \E n \in 0..MaxPayload, tag \in {"answer", "pos_answer"} :
          RunResponse(HeaderOf(counters), Request(34), <<Node(tag, Payload(n))>>)
    \/ \E b \in Bytes, tag \in {"pos_answer", "neg_answer"}, n \in {0, 2} :
          RunResponse(HeaderOf(counters), Request(b), <<Node(tag, Payload(n))>>)

SpecUds == InitUds /\ [][NextUds]_vars

(***************************************************************************)
(* SpecRepeat: a client that sends a request, the adapter reset, empty and *)
(* blank lines, and a line with a character outside ELM_VALID_CHARS        *)
(***************************************************************************)
\* number of lines the worker reads in a behaviour of SpecRepeat
MaxRepeat == 4

RepeatLines == {L_PID, L_ATZ, L_EMPTY, L_BLANK, L_INVALID}

NextRepeat ==
    \/ RunStart
    \/ \E line \in RepeatLines : RunLine(line, MaxRepeat)

SpecRepeat == Init /\ [][NextRepeat]_vars

(***************************************************************************)
(* SpecCollect: a client that switches the PCI byte on, starts a           *)
(* collection and sends, besides the Consecutive Frames, a Single Frame,   *)
(* an AT command, and frames with nothing or too little after the prefix   *)
(***************************************************************************)
\* number of lines the worker reads in a behaviour of SpecCollect
MaxCollect == 4

CollectLines == {L_ATCAF0, L_FF, L_CF1, L_CF2, L_SF, L_ATH1, L_SHORT, L_CFBARE}

NextCollect ==
    \/ RunStart
    \/ \E line \in CollectLines : RunLine(line, MaxCollect)

SpecCollect == Init /\ [][NextCollect]_vars

(***************************************************************************)
(* SpecKeep: a client that sends a request of the catalog, an unknown      *)
(* command, a request for a task plugin and the adapter reset, and may     *)
(* close the connection                                                    *)
(***************************************************************************)
\* number of lines the worker reads in a behaviour of SpecKeep
MaxKeep == 4

KeepLines == {L_PID, L_ATB, L_PLUGIN, L_ATZ}

\* a method of the plugin task raises, or returns (None, TERMINATE, None)
KeepOutcomes ==
    {AnyOutcome,
     [raised |-> FALSE, resp |-> FALSE, r_task |-> TERMINATE, cont |-> "none"]}

NextKeep ==
    \/ RunStart
    \/ \E line \in KeepLines : RunLineWith(line, MaxKeep, KeepOutcomes)
    \/ Disconnect

SpecKeep == Init /\ [][NextKeep]_vars

(***************************************************************************)
(* SpecPlugin: a client of a task plugin whose methods may return a        *)
(* response, with or without a command to pass through; the client sends   *)
(* the request of the plugin, a request of the catalog, and a line that is *)
(* no string of whole bytes, for which the stop method is called           *)
(***************************************************************************)
\* number of lines the worker reads in a behaviour of SpecPlugin
MaxPlugin == 3

PluginLines == {L_PLUGIN, L_PID, L_ODD}

NextPlugin ==
    \/ RunStart
    \/ \E line \in PluginLines : RunLine(line, MaxPlugin)

SpecPlugin == Init /\ [][NextPlugin]_vars

(***************************************************************************)
(* SpecThread: the worker thread step by step (the test of the thread      *)
(* state at the top of the loop, the read, the test after the read, the    *)
(* request, the response) next to the thread that owns the emulator, which *)
(* selects a scenario, pauses, resumes and stops the worker, and calls     *)
(* terminate().  terminate() is one step: the statements between the       *)
(* assignment of the state (line 397) and set_defaults() (line 421) are    *)
(* not interleaved with the worker.  The call of join(1) (line 393)        *)
(* returns by its timeout while the worker lives.                          *)
(***************************************************************************)
\* number of lines the worker handles in a behaviour of SpecThread
MaxThread == 2

ThreadLines == {L_PID, L_0902, L_ATCAF0, L_ATZ, L_ATB}

\* lines 611-612 and 619-621: the states in which the loop is left
MustExitNever(state) == FALSE

MustExit(state) == state \in {"STOPPED", "TERMINATED"}

\* lines 611-615, without the test of PAUSED
MayReadPaused(state) == ~MustExit(state)

\* lines 611-615: the worker goes on to read a line
MayRead(state) == ~MustExit(state) /\ state # "PAUSED"

\* lines 611-612: the loop condition fails
WorkerLeaves ==
    /\ alive
    /\ worker.pc = "top"
    /\ MustExit(threadState)
    /\ worker' = [worker EXCEPT !.pc = "exited"]
    /\ alive' = FALSE
    /\ UNCHANGED <<counters, tasks, plugins, scenario, sortedOBDMsg, answer,
                   threadState, last, prev>>

\* lines 613-618 and 922-933: the worker enters normalized_read_line, which
\* stores req_timeout
WorkerStartsRead ==
    /\ alive
    /\ worker.pc = "top"
    /\ MayRead(threadState)
    /\ Count(counters, K_commands) < MaxThread
    /\ counters' = (IF Has(counters, K_req_timeout) THEN counters
                    ELSE Put(counters, K_req_timeout, max_req_timeout))
    /\ worker' = [Idle EXCEPT !.pc = "reading"]
    /\ UNCHANGED <<tasks, plugins, scenario, sortedOBDMsg, answer, threadState,
                   alive, last, prev>>

\* line 618: normalized_read_line returns got, a line or None
WorkerReads(got) ==
    /\ alive
    /\ worker.pc = "reading"
    /\ worker' = [worker EXCEPT !.pc = "read", !.cmd = got,
                                !.late = threadState \in {"STOPPED", "TERMINATED"}]
    /\ UNCHANGED <<counters, tasks, plugins, scenario, sortedOBDMsg, answer,
                   threadState, alive, last, prev>>

\* lines 619-623: the thread state is tested again, and None is skipped
WorkerChecks ==
    /\ alive
    /\ worker.pc = "read"
    /\ IF MustExit(threadState)
       THEN worker' = [worker EXCEPT !.pc = "exited"] /\ alive' = FALSE
       ELSE /\ worker' = [worker EXCEPT
                             !.pc = IF IsNone(worker.cmd) THEN "top" ELSE "request"]
            /\ alive' = alive
    /\ UNCHANGED <<counters, tasks, plugins, scenario, sortedOBDMsg, answer,
                   threadState, last, prev>>

\* lines 625-641: what handle_request returns for the line, after the
\* repetition of the latest command
RequestOf(cnt0, tsk, line) ==
    IF IsBlank(line) /\ Has(cnt0, K_last_cmd)
    THEN [cnt1 |-> cnt0, cmd |-> cnt0[K_last_cmd],
          r |-> handle_request(Env, cnt0, tsk, cnt0[K_last_cmd], AnyOutcome, AnyOutcome)]
    ELSE [cnt1 |-> Put(cnt0, K_last_cmd, line), cmd |-> line,
          r |-> handle_request(Env, Put(cnt0, K_last_cmd, line), tsk, line,
                               AnyOutcome, AnyOutcome)]

\* lines 625-641: the request is handled; the worker goes on to the
\* response when handle_request returned one
WorkerRequests ==
    /\ alive
    /\ worker.pc = "request"
    /\ With(RequestOf(counters, tasks, Get(worker.cmd)), LAMBDA q :
          /\ Becomes(IterationEnd(Get(worker.cmd), q.cmd, q.cnt1, tasks, q.r, NoRender))
          /\ worker' = IF ~q.r.ctx.raised /\ IsSome(q.r.reply)
                       THEN [worker EXCEPT !.pc = "response",
                                           !.ret = Some([header |-> q.r.header,
                                                         cmd |-> q.r.cmd,
                                                         reply |-> Get(q.r.reply)])]
                       ELSE [worker EXCEPT !.pc = "top"])
    /\ UNCHANGED <<plugins, scenario, sortedOBDMsg, answer, threadState>>

\* lines 642-647: the response is rendered and written
WorkerResponds ==
    /\ alive
    /\ worker.pc = "response"
    /\ With(handle_response(counters, Get(worker.ret).reply, Get(worker.ret).header,
                            Some(Get(worker.ret).cmd)), LAMBDA f :
          /\ alive' = ~f.raised
          /\ last' = [last EXCEPT !.written = @ \o f.written,
                                  !.returned = f.returned]
          /\ worker' = [worker EXCEPT !.pc = IF f.raised THEN "exited" ELSE "top"])
    /\ UNCHANGED <<counters, tasks, plugins, scenario, sortedOBDMsg, answer,
                   threadState, prev>>

\* Elm.terminate, lines 386-423, called by the owner of the emulator or by
\* __exit__ while the worker lives: the state is set, the descriptors are
\* closed and set_defaults (lines 303-312) replaces the counters
Terminate ==
    /\ threadState \notin {"STARTING", "TERMINATED"}
    /\ threadState' = "TERMINATED"
    /\ scenario' = "default"
    /\ answer' = EmptyDict
    /\ counters' = Update(EmptyDict, presets)
    /\ UNCHANGED <<tasks, plugins, sortedOBDMsg, alive, last, prev, worker>>

\* the owner of the emulator assigns a state of Elm.THREAD to threadState
\* (lines 268-276): the worker is paused, resumed or stopped
Pause ==
    /\ threadState = "ACTIVE"
    /\ threadState' = "PAUSED"
    /\ UNCHANGED <<counters, tasks, plugins, scenario, sortedOBDMsg, answer,
                   alive, last, prev, worker>>

Resume ==
    /\ threadState = "PAUSED"
    /\ threadState' = "ACTIVE"
    /\ UNCHANGED <<counters, tasks, plugins, scenario, sortedOBDMsg, answer,
                   alive, last, prev, worker>>

Stop ==
    /\ threadState \in {"ACTIVE", "PAUSED"}
    /\ threadState' = "STOPPED"
    /\ UNCHANGED <<counters, tasks, plugins, scenario, sortedOBDMsg, answer,
                   alive, last, prev, worker>>

NextThread ==
    \/ \E sc \in Scenarios \ {"AT"} : SetScenario(sc)
    \/ RunStart
    \/ WorkerLeaves
    \/ WorkerStartsRead
    \/ \E got \in {None} \cup {Some(l) : l \in ThreadLines} : WorkerReads(got)
    \/ WorkerChecks
    \/ WorkerRequests
    \/ WorkerResponds
    \/ Terminate
    \/ Pause
    \/ Resume
    \/ Stop

SpecThread == Init /\ [][NextThread]_vars

(***************************************************************************)
(* SpecForward: a forwarding adapter is configured and fails: it is not    *)
(* connected, it gives no data before the timeout, an error leaves         *)
(* send_receive_forward, or the network client cannot connect.             *)
(* normalized_read_line forwards every line it read (lines 954-957) inside *)
(* try/except, so an error there is logged and has no effect; the refusal  *)
(* of the connection has one, because net_client calls terminate().        *)
(***************************************************************************)
\* number of lines the worker handles in a behaviour of SpecForward
MaxForward == 3

ForwardLines == {L_PID, L_0905, L_ATB, L_ATCAF0}

\* what send_receive_forward may do when handle_request calls it for the
\* line (line 1580)
ForwardOutcomes(line) ==
    With(Iteration(Env, counters, tasks, line, AnyOutcome, AnyOutcome).last,
         LAMBDA probe : IF IsSome(probe.fw)
                        THEN ForwardAnswers(probe.request) \cup {FW_RAISED}
                        ELSE {FW_FALSE})

\* Elm.run, lines 611-621, with normalized_read_line (lines 954-957),
\* send_receive_forward (lines 745-746) and net_client (lines 709-714): the
\* line is read and forwarded, the connection to the forwarding host is
\* refused, net_client calls terminate() (lines 386-423) and the worker
\* leaves the loop at line 621
ReadRefused(line, bound) ==
    /\ threadState = "ACTIVE"
    /\ alive
    /\ Count(counters, K_commands) < bound
    /\ threadState' = "TERMINATED"
    /\ alive' = FALSE
    /\ counters' = Update(EmptyDict, presets)
    /\ scenario' = "default"
    /\ answer' = EmptyDict
    /\ last' = [NoStep EXCEPT !.line = line, !.cmd = line,
                              !.pre_counters = counters, !.pre_tasks = tasks,
                              !.fw = Some(FW_REFUSED)]
    /\ prev' = last
    /\ UNCHANGED <<tasks, plugins, sortedOBDMsg, worker>>

NextForward ==
    \/ RunStart
    \/ \E line \in ForwardLines : \E fw \in ForwardOutcomes(line) :
          RunLineForward(line, MaxForward, fw)
    \/ \E line \in ForwardLines : ReadRefused(line, MaxForward)

SpecForward == Init /\ [][NextForward]_vars

(***************************************************************************)
(* Properties.  They speak of the latest iteration of the worker (last),   *)
(* of the one before it (prev) and of the state the latest one left.       *)
(***************************************************************************)
\* the PCI byte of requests was parsed in the step
PciOn(step) == Has(step.pre_counters, K_caf) /\ step.pre_counters[K_caf] = FALSE

\* the calls of task methods made in the step
CallsOf(step) == {step.calls[i] : i \in 1..Len(step.calls)}

IsMultilineRun(c) == c.kind = "Multiline" /\ c.method = "run"

\* the reassembly task took the frame
Accepted(c) == IsMultilineRun(c) /\ ~c.ret.raised /\ c.ret # TASK_ERROR

\* the reassembly task held a collection in progress when it was called
WasCollecting(c) == IsMultilineRun(c) /\ IsSome(c.before.frame)

\* the stored task is the object the call was made on
SameTask(t, c) == t.kind = c.kind /\ t.born = c.born

Stored(c) == \E h \in DOMAIN tasks : SameTask(tasks[h], c)

\* the frame is a First Frame declaring a length above 0 for a task that
\* holds nothing, or the Consecutive Frame of the index the task expects
InOrder(c) ==
    /\ IsMultilineRun(c)
    /\ \/ /\ c.frame = Some(0) /\ Get(c.length) > 0
          /\ IsNone(c.before.frame) /\ IsNone(c.before.length)
       \/ /\ IsSome(c.frame) /\ Get(c.frame) > 0 /\ IsNone(c.length)
          /\ c.frame = c.before.frame

\* C1: with the PCI byte parsed, the reassembly task accepts a First Frame
\* and the Consecutive Frames that come in order, and accumulates their
\* payloads; the
\* frame at which the accumulated payload reaches the 2L digits declared is
\* the one and only frame whose request is given to catalog resolution, the
\* command resolved is the first 2L digits of the accumulated payload, and
\* the task is off the task table then; at every earlier frame nothing is
\* resolved, nothing is answered and the task stays with its payload.
\* (Frames carry whole bytes.)
C1_Reassembly ==
    \A c \in CallsOf(last) :
        InOrder(c) =>
            /\ Accepted(c)
            /\ c.after.req = Some(IF c.frame = Some(0) THEN c.cmd
                                  ELSE Get(c.before.req) \o c.cmd)
            /\ IF Len(Get(c.after.req)) >= 2 * Get(c.after.length)
               THEN /\ last.resolved
                         = Some(Take(Get(c.after.req), 2 * Get(c.after.length)))
                    /\ ~Has(tasks, c.header)
               ELSE /\ last.resolved = None
                    /\ last.reply = None
                    /\ Has(tasks, c.header)
                    /\ SameTask(tasks[c.header], c)
                    /\ tasks[c.header].req = c.after.req

C1_Witness ==
    /\ \E c \in CallsOf(last) : Accepted(c) /\ c.frame = Some(2)
    /\ \E c \in CallsOf(prev) : Accepted(c) /\ c.frame = Some(1)
    /\ last.resolved = Some(<<"A", "A", "B", "B", "C", "C">>)
    /\ tasks = EmptyDict

\* a Consecutive Frame of another index than the expected one came while
\* the task was collecting
WrongIndex(step) ==
    \E c \in CallsOf(step) :
        /\ WasCollecting(c)
        /\ IsSome(c.frame) /\ Get(c.frame) > 0
        /\ c.frame # c.before.frame

\* C2: while a collection is in progress, a Consecutive Frame whose index
\* is not the expected one destroys the task, and nothing of the partial
\* payload is resolved or answered; a Single Frame that follows on the
\* header is resolved on its own: no task method is called for it and the
\* command resolved is its own payload.
C2_WrongIndex ==
    /\ WrongIndex(last) =>
          /\ \A c \in CallsOf(last) : c.ret = TASK_ERROR
          /\ ~Has(tasks, last.header)
          /\ last.resolved = None
          /\ last.reply = None
    /\ WrongIndex(prev) /\ last.line = L_SF /\ last.header = prev.header =>
          /\ last.calls = <<>>
          /\ last.resolved = Some(<<"0", "1", "0", "0">>)
          /\ ~Has(tasks, last.header)

C2_Witness ==
    /\ WrongIndex(prev)
    /\ last.line = L_SF
    /\ last.resolved = Some(<<"0", "1", "0", "0">>)

\* a First Frame came while the task was collecting
SecondFirstFrame(step) ==
    \E c \in CallsOf(step) : WasCollecting(c) /\ c.frame = Some(0)

\* C3: a First Frame that comes while the task of the header is collecting
\* is refused: the task is destroyed with the payload it had collected, no
\* task is left on the header (the frame starts no new collection), and
\* nothing is resolved, answered or written for it.
C3_SecondFirstFrame ==
    SecondFirstFrame(last) =>
        /\ \A c \in CallsOf(last) : c.ret = TASK_ERROR
        /\ ~Has(tasks, last.header)
        /\ last.resolved = None
        /\ last.reply = None
        /\ last.written = <<>>

C3_Witness == SecondFirstFrame(last) /\ last.line = L_FF

\* C4: a Consecutive Frame that comes on a header without a task is a
\* protocol violation: its payload is not resolved against the catalog and
\* no answer is produced for it.
C4_IdleConsecutiveFrame ==
    /\ PciOn(last) /\ last.line \in {L_CF1, L_CF2}
    /\ ~Has(last.pre_tasks, last.header)
    => last.resolved = None /\ last.reply = None

\* the reassembly task wrote a Flow-Control frame in the call
Emitted(c) == c.written # <<>>

\* the emission of Flow-Control frames was not switched off
FlowEnabled(step) ==
    ~Has(step.pre_counters, K_cfc) \/ step.pre_counters[K_cfc] = 1

\* the frame is the First Frame or closes a block of Consecutive Frames
ClosesBlock(c) ==
    IsSome(c.frame) /\ (c.frame = Some(0) \/ Get(c.frame) % flow_control_end = 0)

\* C5 (amended): unless the emission is switched off, the reassembly task
\* emits a Flow-Control frame when it accepts the First Frame and when it
\* accepts the Consecutive Frame that closes a block of flow_control_end
\* frames, and at no other frame; it emits none on a frame it rejects; at
\* the First Frame and at the close of a block the cadence counter is set to
\* the block size minus one, at every other accepted frame it goes down by
\* one.
C5_FlowControlCadence ==
    \A c \in CallsOf(last) :
        IsMultilineRun(c) =>
            /\ Emitted(c) <=> Accepted(c) /\ FlowEnabled(last) /\ ClosesBlock(c)
            /\ Accepted(c) /\ IsSome(c.frame) =>
                  c.after.flow_control
                      = IF ClosesBlock(c) THEN flow_control_end - 1
                        ELSE c.before.flow_control - 1

C5_Witness ==
    /\ \E c \in CallsOf(last) :
          Accepted(c) /\ c.frame = Some(flow_control_end) /\ Emitted(c)
    /\ \E c \in CallsOf(prev) :
          Accepted(c) /\ c.frame = Some(flow_control_end - 1) /\ ~Emitted(c)
          /\ c.after.flow_control = 0

\* C5 as the specification states it: a Flow-Control frame at the First
\* Frame and once per block of accepted Consecutive Frames, none on a
\* rejected frame, and after an emission the cadence counter is the
\* configured block size.
C5_AsStated ==
    \A c \in CallsOf(last) :
        IsMultilineRun(c) =>
            /\ Emitted(c) <=> Accepted(c) /\ ClosesBlock(c)
            /\ Emitted(c) => c.after.flow_control = flow_control_end

\* C6: the index of a Consecutive Frame is compared modulo the wrap of the
\* sequence number: after the frame of PCI byte 2F, the frame whose PCI
\* byte carries the wrapped index (20) is accepted as the next frame and
\* the collection goes on.
C6_IndexWrap ==
    \A c \in CallsOf(last) :
        WasCollecting(c) /\ c.before.frame = Some(16) /\ last.line = L_WRAP =>
            /\ Accepted(c)
            /\ Has(tasks, c.header)

\* C7: a First Frame carries a 12-bit length: the request 1100AA (PCI byte
\* 11, length 0x100) on a header without a task starts a collection of 256
\* bytes.
C7_FirstFrameLength12 ==
    PciOn(last) /\ last.line = L_FF12 /\ ~Has(last.pre_tasks, last.header) =>
        /\ Has(tasks, last.header)
        /\ tasks[last.header].kind = "Multiline"
        /\ tasks[last.header].length = Some(256)

\* the calls of the start method made in the step
Starts(step) == {c \in CallsOf(step) : c.method = "start"}

\* C8: the task table holds for a header the one task constructed for that
\* header; when a catalog entry starts a task plugin on a header that has a
\* task, the old task is off the table, and the header holds a task after
\* the request exactly when the start method of the new task returned the
\* continue flag, and that task is the new one.
C8_OneTaskPerHeader ==
    /\ \A h \in DOMAIN tasks : tasks[h].header = h
    /\ \A i \in 1..Len(last.evicted) :
          \A h \in DOMAIN tasks : ~(/\ tasks[h].kind = last.evicted[i].kind
                                    /\ tasks[h].born = last.evicted[i].born)
    /\ last.evicted # <<>> /\ ~last.raised =>
          \A c \in Starts(last) :
              /\ c.born > last.evicted[1].born
              /\ Has(tasks, c.header) <=> ~c.ret.raised /\ c.ret.r_task = CONTINUE
              /\ Has(tasks, c.header) => SameTask(tasks[c.header], c)

C8_Witness ==
    /\ last.evicted # <<>>
    /\ Has(tasks, last.header)
    /\ tasks[last.header].born = counters[K_commands]

\* the call returned the terminate flag
Terminated(c) == ~c.ret.raised /\ c.ret.r_task = TERMINATE

\* C9: when handle_request returns after a task method (start, run or
\* stop) returned the terminate flag, the task is off the task table, and
\* the completion counter of the task's plugin has gone up by one for each
\* task of that plugin that terminated in the request.
C9_Terminate ==
    last.handled /\ ~last.raised =>
        \A c \in CallsOf(last) :
            Terminated(c) =>
                /\ ~Stored(c)
                /\ Count(counters, TaskName(c.kind))
                      = Count(last.pre_counters, TaskName(c.kind))
                        + Cardinality({d \in CallsOf(last) :
                                          Terminated(d) /\ d.kind = c.kind})

C9_Witness ==
    /\ ~last.raised
    /\ \E c \in CallsOf(last) : Terminated(c) /\ c.kind = "task_plugin"
    /\ Count(counters, <<"task_plugin">>) = 1
    /\ tasks = EmptyDict

\* a task method raised an exception in the step
Raising(step) == \E c \in CallsOf(step) : c.ret.raised

\* the counters a request may change when a task method raises in it: the
\* command counter, the hit counters of the catalog entries it matched and
\* the completion counters of the tasks that terminated in it
MayChange(step) ==
    {K_commands}
    \cup {step.hits[i] : i \in 1..Len(step.hits)}
    \cup {TaskName(c.kind) : c \in {d \in CallsOf(step) : Terminated(d)}}

SameExcept(new, old, keys) ==
    \A k \in (DOMAIN new \cup DOMAIN old) \ keys :
        Has(new, k) /\ Has(old, k) /\ new[k] = old[k]

\* C10 (amended): an exception raised by the start, run or stop method of a
\* task is caught: the task is off the task table, handle_request returns
\* no reply, the worker stays in its loop, and no counter has changed other
\* than the command counter, the hit counters of the catalog entries the
\* request matched and the completion counter of a task that terminated
\* earlier in the request.
C10_TaskException ==
    Raising(last) =>
        /\ \A c \in CallsOf(last) : c.ret.raised => ~Stored(c)
        /\ ~last.raised
        /\ last.reply = None
        /\ alive
        /\ counters[K_commands] = Count(last.pre_counters, K_commands) + 1
        /\ SameExcept(counters, last.pre_counters, MayChange(last))

C10_Witness ==
    /\ \E c \in CallsOf(last) :
          c.ret.raised /\ c.kind = "task_write_vin" /\ c.method = "start"
    /\ counters[<<"WRITE_VIN">>] = 1
    /\ alive

\* C10 as the specification states it: no counter other than the command
\* counter has changed.
C10_AsStated ==
    Raising(last) =>
        /\ \A c \in CallsOf(last) : c.ret.raised => ~Stored(c)
        /\ last.reply = None
        /\ alive
        /\ SameExcept(counters, last.pre_counters, {K_commands})

(***************************************************************************)
(* Passthrough                                                             *)
(***************************************************************************)
\* the calls of run and start in the step that returned a command to pass
\* through
Passthroughs(step) ==
    {c \in CallsOf(step) : /\ c.method \in {"run", "start"}
                           /\ ~c.ret.raised /\ IsSome(c.ret.r_cont)}

\* the place in the sorted catalog of the first entry that answers cmd (it
\* matches and is no skip entry), 0 when there is none
FirstAnswering(cmd, cnt, header) ==
    LET found == {i \in 1..Len(sortedOBDMsg) :
                     /\ Matches(sortedOBDMsg[i][2], cnt, header, cmd)
                     /\ sortedOBDMsg[i][2].Action # Some("skip")}
    IN  IF found = {} THEN 0
        ELSE CHOOSE i \in found : \A j \in found : i <= j

\* the request of the step was answered by the scan of the catalog from its
\* first entry for the command cmd
ScannedFor(step, cmd) ==
    /\ step.resolved = Some(cmd)
    /\ LET i == FirstAnswering(cmd, step.pre_counters, step.header)
       IN  i > 0 => /\ step.hits # <<>>
                    /\ step.hits[Len(step.hits)] = PidOf(sortedOBDMsg[i][1])

\* C11: whenever run on an active task or start on a newly created task
\* returns a command to pass through, the request is answered by the scan
\* of the sorted catalog from its first entry for that command, not by the
\* entry that was being processed.
C11_PassthroughReenters ==
    \A c \in Passthroughs(last) : ScannedFor(last, Get(c.ret.r_cont))

\* the same for the run method alone
C11_RunReenters ==
    \A c \in Passthroughs(last) : c.method = "run" => ScannedFor(last, Get(c.ret.r_cont))

C11_RunWitness ==
    \E c \in Passthroughs(last) : c.method = "run" /\ last.reply = Some(ST(<<"4", "1", "0", "0">>))

C11_StartWitness ==
    \E c \in Passthroughs(last) : c.method = "start" /\ last.reply = Some(ST(<<"7", "E">>))

(***************************************************************************)
(* Errors and the worker loop                                              *)
(***************************************************************************)
\* C12: no error raised during catalog resolution or during the rendering
\* of a response ends the worker loop: after every line it has processed,
\* the worker is still in the loop and reads the next line.
C12_WorkerSurvives == threadState = "ACTIVE" /\ last.handled => alive

\* an error raised inside handle_request leaves the worker in the loop
C12_ResolutionSurvives ==
    last.handled /\ (last.raised \/ Raising(last)) /\ IsNone(last.reply) => alive

\* the Flow-Control frame of a First Frame is rendered under a header that
\* is no number
C12_ResolutionWitness ==
    /\ last.handled /\ Raising(last) /\ alive
    /\ last.line = L_FF /\ ~AllHex(last.pre_counters[K_set_header])

\* the rendering of the answer of ten bytes under a header of 29 bits
C12_RenderWitness ==
    /\ last.handled /\ ~last.raised /\ ~alive
    /\ last.reply = Some(AnswerLong)
    /\ Len(counters[K_set_header]) = 6 /\ UseHeaders(counters)

(***************************************************************************)
(* Reset                                                                   *)
(***************************************************************************)
\* the counters of d whose key carries the prefix of the command counters
CmdPart(d) == [k \in {x \in DOMAIN d : x[1] = "cmd_"} |-> d[k]]

\* preset configurations an embedding program may store in self.presets
PresetChoices ==
    {EmptyDict,
     Put(EmptyDict, K_caf, FALSE),
     Put(Put(EmptyDict, K_use_header, TRUE), K_set_header, <<"7", "E", "1">>)}

\* C13: after an adapter reset the counters whose key carries the
\* command-counter prefix are the preset configuration keys and the default
\* header, with the preset values and ECU_ADDR_E, whatever commands came
\* before; a second reset changes nothing.  The same holds of a reset of
\* the counters of any state under each of the preset configurations.
C13_Reset ==
    /\ last.reset =>
        /\ DOMAIN CmdPart(counters) = {K_set_header} \cup DOMAIN CmdPart(presets)
        /\ \A k \in DOMAIN presets : counters[k] = presets[k]
        /\ K_set_header \notin DOMAIN presets => counters[K_set_header] = ECU_ADDR_E
        /\ CmdPart(counters) = CmdPart(reset(EmptyDict))
        /\ reset(counters) = counters
    /\ \A pre \in PresetChoices :
        LET after == resetWith(counters, pre)
        IN  /\ DOMAIN CmdPart(after) = {K_set_header} \cup DOMAIN CmdPart(pre)
            /\ \A k \in DOMAIN pre : after[k] = pre[k]
            /\ K_set_header \notin DOMAIN pre => after[K_set_header] = ECU_ADDR_E
            /\ CmdPart(after) = CmdPart(resetWith(EmptyDict, pre))
            /\ resetWith(after, pre) = after

\* a reset after the client has switched the PCI byte on and set a latest
\* command
C13_Witness ==
    /\ last.reset
    /\ Has(last.pre_counters, K_caf) /\ Has(last.pre_counters, K_last_cmd)
    /\ ~Has(counters, K_caf)

\* the same through the catalog entry of the adapter reset
C13_WitnessATZ ==
    /\ last.reset /\ last.handled /\ last.hits = <<PidOf("AT_Z")>>
    /\ Has(prev.pre_counters, K_last_cmd)

\* C14: whenever the session is reset, by the adapter reset or because
\* the network client disconnected, the task table is empty afterwards, and
\* the request that follows the reset calls no task that the session held
\* before it: a Consecutive Frame that arrives then is not appended to the
\* payload that was being collected.
C14_ResetDestroysTasks ==
    /\ last.reset => tasks = EmptyDict
    /\ prev.reset =>
        /\ last.pre_tasks = EmptyDict
        /\ \A c \in CallsOf(last) :
              /\ ~WasCollecting(c)
              /\ \A h \in DOMAIN prev.pre_tasks : ~SameTask(prev.pre_tasks[h], c)

\* the client disconnects while a First Frame is collected, and the
\* Consecutive Frame of the expected index 1 arrives after the reset
C14_Witness ==
    /\ prev.reset /\ ~prev.handled
    /\ \E h \in DOMAIN prev.pre_tasks :
          /\ prev.pre_tasks[h].kind = "Multiline"
          /\ prev.pre_tasks[h].frame = Some(1)
    /\ last.handled /\ last.line = L_CF1
    /\ tasks = EmptyDict

(***************************************************************************)
(* Catalog resolution                                                      *)
(***************************************************************************)
\* the step resolved a command with the catalog and called no task method
Resolved(step) == step.handled /\ IsSome(step.resolved) /\ step.calls = <<>>

\* the entries <<key, entry>> of the list that answer the command of the
\* step: they match it and are no skip entries
Answering(list, step) ==
    {list[i] : i \in {j \in 1..Len(list) :
        /\ Matches(list[j][2], step.pre_counters, step.header, Get(step.resolved))
        /\ list[j][2].Action # Some("skip")}}

\* the layers of the catalog in the order of precedence of the
\* specification: the active scenario, "AT", "default"
Layers == <<scenario, "AT", "default">>

\* the first layer, in that order, that has an entry answering the command
WinningLayer(step) ==
    Layers[CHOOSE i \in 1..3 :
              /\ Answering(ObdMessage[Layers[i]], step) # {}
              /\ \A j \in 1..(i - 1) : Answering(ObdMessage[Layers[j]], step) = {}]

\* the entry kv of a layer answered the request of the step
AnsweredBy(kv, step) ==
    /\ step.hits # <<>> /\ step.hits[Len(step.hits)] = PidOf(kv[1])
    /\ IsSome(kv[2].Response) /\ step.reply = Get(kv[2].Response)

\* C15: when entries of the layers answer the same command with equal
\* priority, the entry selected is one of the active scenario when it has
\* one, otherwise one of "AT", otherwise one of "default", whatever the
\* catalog keys of the entries.
C15_LayerPrecedence ==
    Resolved(last) =>
        LET all == UNION {Answering(ObdMessage[Layers[i]], last) : i \in 1..3}
        IN  (all # {} /\ \A a, b \in all : PriorityOf(a[2]) = PriorityOf(b[2])) =>
                \E kv \in Answering(ObdMessage[WinningLayer(last)], last) :
                    AnsweredBy(kv, last)

\* the same when the answering entries of the layers share one catalog key
C15_SameKey ==
    Resolved(last) =>
        LET all == UNION {Answering(ObdMessage[Layers[i]], last) : i \in 1..3}
        IN  (/\ all # {}
             /\ \A a, b \in all : a[1] = b[1]
             /\ Answering(ObdMessage[scenario], last) # {}) =>
                \E kv \in Answering(ObdMessage[scenario], last) : AnsweredBy(kv, last)

\* the key SAME is in the three layers; the scenario "car" answers
C15_SameKeyWitness ==
    /\ Resolved(last) /\ scenario = "car" /\ last.line = L_0902
    /\ last.reply = Some(ST(<<"C", "2">>))

\* the entries D_X, A_X and C_X answer 0900; the layer "default" answers
C15_DifferentKeysWitness ==
    /\ Resolved(last) /\ scenario = "car" /\ last.line = L_0900
    /\ last.reply = Some(ST(<<"D", "0">>))

\* the merged catalog before it is sorted, in catalog order
Merged == DictMerge(DictMerge(ObdMessage["default"], ObdMessage["AT"]), ObdMessage[scenario])

\* the place of the key in the list m
PlaceIn(m, key) == CHOOSE i \in 1..Len(m) : m[i][1] = key

\* the priority of an entry, 10 when it has none
Precedence(val) == IF val.Priority = None THEN 10 ELSE Get(val.Priority)

\* C16: the sorted catalog holds the entries of the merged catalog in
\* ascending priority, an entry without a priority counting as 10, entries
\* of equal priority in catalog order; a request that the catalog answers
\* is answered by the first entry of the sorted catalog that matches it
\* (and is no skip entry).
C16_PriorityOrder ==
    /\ LET m == Merged
           place == [i \in 1..Len(sortedOBDMsg) |-> PlaceIn(m, sortedOBDMsg[i][1])]
       IN  /\ Len(sortedOBDMsg) = Len(m)
           /\ \A i \in 1..Len(m) : \E j \in 1..Len(sortedOBDMsg) : sortedOBDMsg[j] = m[i]
           /\ \A i, j \in 1..Len(sortedOBDMsg) :
                 i < j =>
                   \/ Precedence(sortedOBDMsg[i][2]) < Precedence(sortedOBDMsg[j][2])
                   \/ /\ Precedence(sortedOBDMsg[i][2]) = Precedence(sortedOBDMsg[j][2])
                      /\ place[i] < place[j]
    /\ Resolved(last) /\ Answering(sortedOBDMsg, last) # {} =>
          AnsweredBy(sortedOBDMsg[FirstAnswering(Get(last.resolved), last.pre_counters,
                                                 last.header)], last)

\* 0A00 is answered by P_5, which comes before P_5B of the same priority;
\* 0A01 is answered by P_5B of priority 5, which the catalog has after
\* P_NONE without a priority
C16_Witness ==
    /\ Resolved(prev) /\ prev.line = L_0A00 /\ prev.reply = Some(ST(<<"B", "5">>))
    /\ Resolved(last) /\ last.line = L_0A01 /\ last.reply = Some(ST(<<"B", "6">>))
    /\ PlaceIn(Merged, "P_NONE") < PlaceIn(Merged, "P_5B")

\* the places of the entries the scan of the step reached and found
\* matching: the matching entries up to the first that answers
Reached(step) ==
    LET n == FirstAnswering(Get(step.resolved), step.pre_counters, step.header)
    IN  {i \in 1..(IF n = 0 THEN Len(sortedOBDMsg) ELSE n) :
            Matches(sortedOBDMsg[i][2], step.pre_counters, step.header, Get(step.resolved))}

\* C17: in a request resolved with the catalog, the entries whose hit is
\* noted are the matching entries the scan reached, each once and in the
\* order of the sorted catalog, skip entries included; the hit counter of
\* each is one more than before the request and no other hit counter
\* changes; every entry before the answering one is a skip entry, the
\* request is answered by the first matching entry that is no skip entry,
\* and is unknown when there is none.
C17_HitCounters ==
    Resolved(last) /\ ~last.reset =>
        LET reached == Reached(last)
            n == FirstAnswering(Get(last.resolved), last.pre_counters, last.header)
        IN  /\ Len(last.hits) = Cardinality(reached)
            /\ \A k \in 1..Len(last.hits) :
                  \E i \in reached :
                      /\ last.hits[k] = PidOf(sortedOBDMsg[i][1])
                      /\ Cardinality({j \in reached : j <= i}) = k
                      /\ i # n => sortedOBDMsg[i][2].Action = Some("skip")
            /\ \A i \in 1..Len(sortedOBDMsg) :
                  /\ Count(counters, PidOf(sortedOBDMsg[i][1]))
                        = Count(last.pre_counters, PidOf(sortedOBDMsg[i][1]))
                          + (IF i \in reached THEN 1 ELSE 0)
                  /\ i \in reached => Has(counters, PidOf(sortedOBDMsg[i][1]))
            /\ n = 0 => last.unknown
            /\ n # 0 => ~last.unknown /\ AnsweredBy(sortedOBDMsg[n], last)

\* 0900 matches the skip entry SKIP_09 and then D_X, which answers
C17_Witness ==
    /\ Resolved(last) /\ ~last.reset
    /\ last.hits = <<PidOf("SKIP_09"), PidOf("D_X")>>
    /\ counters[PidOf("SKIP_09")] = 2
    /\ last.reply = Some(ST(<<"D", "0">>))

\* 0905 matches the skip entry alone and is unknown
C17_SkipOnlyWitness ==
    /\ Resolved(last) /\ last.hits = <<PidOf("SKIP_09")>> /\ last.unknown
    /\ last.reply = Some(ST(NO_DATA))

\* with another header set, the entry PID_0100 does not match 0100
C17_HeaderWitness ==
    /\ Resolved(last) /\ last.line = L_PID /\ last.hits = <<>> /\ last.unknown

(***************************************************************************)
(* Unknown commands                                                        *)
(***************************************************************************)
\* the text is hexadecimal digits
HexText(t) ==
    \A i \in 1..Len(t) : t[i] \in {"0", "1", "2", "3", "4", "5", "6", "7", "8", "9",
                                     "A", "B", "C", "D", "E", "F"}

\* the text is a string of whole bytes in hexadecimal digits
WholeBytes(t) == Len(t) > 0 /\ Len(t) % 2 = 0 /\ HexText(t)

\* C18: a command that no catalog entry answers never ends the worker and
\* is answered according to its text: NO DATA when it is whole bytes in
\* hexadecimal digits; ? for any other text that is not empty, a string of
\* an odd number of hexadecimal digits included; nothing at all, not even
\* the prompt, when it is empty.  What a forwarding adapter answers does
\* not change the answer.
C18_UnknownAnswer ==
    last.handled /\ last.unknown =>
        /\ alive
        /\ ~last.raised
        /\ IF last.request = <<>>
           THEN last.reply = Some(<<>>) /\ last.written = <<>>
           ELSE IF WholeBytes(last.request)
           THEN /\ last.reply = Some(ST(<<"N", "O", " ", "D", "A", "T", "A">>))
                /\ last.written = << <<"N", "O", " ", "D", "A", "T", "A", "\r", ">">> >>
           ELSE /\ last.reply = Some(ST(<<"?">>))
                /\ last.written = << <<"?", "\r", ">">> >>

\* an unknown command of three hexadecimal digits is answered ?
C18_Witness ==
    /\ last.handled /\ last.unknown /\ last.request = <<"0", "1", "0">>
    /\ last.written = << <<"?", "\r", ">">> >>

C18_WitnessEmpty ==
    last.handled /\ last.unknown /\ last.request = <<>> /\ last.written = <<>>

C18_WitnessHex ==
    /\ last.handled /\ last.unknown /\ last.request = <<"0", "9", "0", "5">>
    /\ last.fw = Some(FW_DATA(<<"4", "1", "0", "5", "\r">>))
    /\ last.written = << <<"N", "O", " ", "D", "A", "T", "A", "\r", ">">> >>

C18_WitnessAT ==
    /\ last.handled /\ last.unknown /\ last.request = <<"A", "T", "B">>
    /\ last.written = << <<"?", "\r", ">">> >>

\* C18 as stated: an unknown command in hexadecimal digits is answered
\* NO DATA, any other unknown command is answered ?
C18_AsStated ==
    last.handled /\ last.unknown =>
        IF HexText(last.request)
        THEN last.reply = Some(ST(<<"N", "O", " ", "D", "A", "T", "A">>))
        ELSE last.reply = Some(ST(<<"?">>))

\* the counters of unknown commands: the keys unknown_<text>
UnknownKeys(cnt) == {k \in DOMAIN cnt : k[1] = "unknown_" /\ k[Len(k)] # "_R"}

\* C19: each unknown command text has a counter of its own, which a
\* request for that text increments by one at every occurrence, repeats
\* included, and which no other request changes; the diagnostic warning is
\* given exactly when the forwarding adapter answered, its answer is
\* neither NO DATA nor ?, and the occurrence is the first of that text
\* (the counter is 1): never on a repeat.
C19_UnknownCounter ==
    /\ last.handled /\ last.unknown =>
        /\ counters[<<"unknown_">> \o last.request]
             = Count(last.pre_counters, <<"unknown_">> \o last.request) + 1
        /\ \A k \in UnknownKeys(counters) :
              k # <<"unknown_">> \o last.request =>
                 Has(last.pre_counters, k) /\ counters[k] = last.pre_counters[k]
        /\ last.warned <=>
              /\ IsSome(last.fw) /\ Get(last.fw).ok
              /\ ~FwMatch(<<"N", "O", " ", "D", "A", "T", "A">>, Get(last.fw))
              /\ ~FwMatch(<<"?">>, Get(last.fw))
              /\ counters[<<"unknown_">> \o last.request] = 1
    /\ last.handled /\ ~last.unknown =>
        /\ ~last.warned
        /\ \A k \in UnknownKeys(counters) :
              Has(last.pre_counters, k) /\ counters[k] = last.pre_counters[k]

\* the second occurrence of an unknown command, to which the forwarding
\* adapter answers with data as it did to the first: counted, no warning
C19_Witness ==
    /\ prev.handled /\ prev.unknown /\ prev.warned
    /\ last.handled /\ last.unknown /\ last.request = prev.request
    /\ last.fw = Some(FW_DATA(<<"4", "1", "0", "5", "\r">>))
    /\ counters[<<"unknown_">> \o last.request] = 2
    /\ ~last.warned

\* C19 as stated: the counter of an unknown command text is incremented
\* once, however many times the command is repeated
C19_AsStated ==
    last.handled /\ last.unknown => counters[<<"unknown_">> \o last.request] = 1

(***************************************************************************)
(* Single-frame requests                                                   *)
(***************************************************************************)
\* the line without its spaces, in upper case
Normalized(line) == UpperSeq(SelectSeq(line, LAMBDA c : c # " "))

\* with the PCI byte parsed, the normalized text n starts with a PCI byte
FramedText(step, n) ==
    /\ PciOn(step)
    /\ Len(n) >= 2 /\ HexText(SubSeq(n, 1, 2))

\* the PCI byte of n is 0x11..0x20: it declares no length and no frame
PlainPCI(n) == (n[1] = "1" /\ n[2] # "0") \/ (n[1] = "2" /\ n[2] = "0")

C20_WitnessPlain ==
    /\ last.handled /\ ~PciOn(last) /\ last.line = L_ATCAF0
    /\ last.resolved = Some(<<"A", "T", "C", "A", "F", "0">>)

(***************************************************************************)
(* Requests shorter than their size prefix                                 *)
(***************************************************************************)
\* the normalized text n starts with a size prefix of 0..15 that declares
\* more bytes than the digits after it hold
DeclaresMore(n) ==
    /\ Len(n) >= 2 /\ n[1] = "0" /\ HexText(SubSeq(n, 1, 2))
    /\ Len(n) - 2 < 2 * HexVal(n[2])

\* C21: with the PCI byte parsed, a request whose size prefix (0..15)
\* declares more bytes than its payload holds writes no reply, is not
\* resolved against the catalog, calls no task method, and leaves the task
\* table and every counter but the command counter as they were.
C21_ShortPayload ==
    (last.handled /\ PciOn(last) /\ DeclaresMore(Normalized(last.cmd))) =>
        /\ last.written = <<>>
        /\ last.resolved = None
        /\ last.hits = <<>>
        /\ last.calls = <<>>
        /\ ~last.raised /\ alive
        /\ tasks = last.pre_tasks
        /\ SameExcept(counters, last.pre_counters, {K_commands})

\* "0301" declares three bytes and holds one, while a collection is going
\* on on the header
C21_Witness ==
    /\ last.handled /\ PciOn(last) /\ last.line = L_SHORT
    /\ DeclaresMore(Normalized(last.cmd))
    /\ \E h \in DOMAIN tasks : tasks[h].kind = "Multiline" /\ IsSome(tasks[h].frame)
    /\ tasks = last.pre_tasks

\* "02" declares two bytes and holds none
C21_WitnessBare ==
    /\ last.handled /\ PciOn(last) /\ last.line = L_BARE
    /\ last.written = <<>>

(***************************************************************************)
(* The prompt                                                              *)
(***************************************************************************)
EndsWith(t, suffix) ==
    Len(t) >= Len(suffix) /\ SubSeq(t, Len(t) - Len(suffix) + 1, Len(t)) = suffix

\* the step rendered an answer and handle_response returned the text t
Rendered(step, t) == step.handled /\ step.returned = Some(t) /\ Len(t) > 0

\* the text of the single string node of T_STR
StrText == T_STR[1].text

C22_WitnessCRLF ==
    /\ Has(counters, K_linefeeds) /\ counters[K_linefeeds] = 1
    /\ last.reply = Some(T_STR)
    /\ Rendered(last, StrText \o <<"\r", "\n", ">">>)

(***************************************************************************)
(* Empty renderings and NO DATA                                            *)
(***************************************************************************)
\* the template has a header node, the first one at index k
FirstHeader(resp, k) ==
    /\ k \in 1..Len(resp) /\ resp[k].tag = "header"
    /\ \A j \in 1..(k - 1) : resp[j].tag # "header"

Digits(t) == SelectSeq(t, LAMBDA c : c # " ")

\* the header node at index k is not followed by a size node and a data or
\* subd node whose number of digits is twice the size
TripleFails(resp, k) ==
    \/ Len(resp) < k + 2
    \/ resp[k + 1].tag # "size" \/ resp[k + 2].tag \notin {"data", "subd"}
    \/ ~HexText(resp[k + 1].text)
    \/ Len(resp[k + 2].text) = 0
    \/ /\ HexToInt(resp[k + 1].text) < 16
       /\ Len(Digits(resp[k + 2].text)) # 2 * HexToInt(resp[k + 1].text)

\* the template is a single triple whose header the response-address
\* filter of the session rejects
FilteredOut(resp) ==
    /\ Len(resp) = 3 /\ FirstHeader(resp, 1) /\ ~TripleFails(resp, 1)
    /\ Has(counters, K_cra)
    /\ \E j \in 1..3 : counters[K_cra][j] \notin {"X", resp[1].text[j]}

\* NO DATA, its line terminator and the prompt
NoDataText ==
    NO_DATA \o NlOf(counters)
    \o (IF Has(counters, K_linefeeds) /\ counters[K_linefeeds] > 2
        THEN <<">">> ELSE NlOf(counters) \o <<">">>)

HasExec(resp) == \E j \in 1..Len(resp) : resp[j].tag = "exec"

\* the step rendered the template resp and no exception left the renderer
RenderedFrom(step, resp) == step.handled /\ alive /\ step.reply = Some(resp)

\* C23 (amended): when handle_response renders nothing it returns None and
\* writes nothing, not even the prompt.  The output is replaced by NO DATA
\* when the template is no well-formed XML, when a header node is not
\* followed by a fitting size and data node, or when the template is a
\* triple whose header the response-address filter rejects; in no other
\* case.
C23_NoData ==
    \A resp \in Templates :
        RenderedFrom(last, resp) =>
            LET nodata == \/ ~WellFormed(resp)
                          \/ \E k \in 1..Len(resp) :
                                FirstHeader(resp, k) /\ TripleFails(resp, k)
                          \/ FilteredOut(resp)
            IN  /\ nodata => last.returned = Some(NoDataText)
                /\ ~nodata => last.returned # Some(NoDataText)
                /\ (last.returned = None /\ ~HasExec(resp)) => last.written = <<>>
                /\ resp \in {<<>>, T_EVAL_NONE, T_ONLY_UNKNOWN}
                      => last.returned = None /\ last.written = <<>>

\* a triple whose size does not fit its data is answered NO DATA
C23_Witness ==
    /\ RenderedFrom(last, T_TRIPLE_SIZE)
    /\ last.returned = Some(NoDataText)
    /\ last.written = <<NoDataText>>

\* an empty template writes nothing
C23_WitnessEmpty ==
    RenderedFrom(last, <<>>) /\ last.returned = None /\ last.written = <<>>

\* a template that is no well-formed XML is answered NO DATA
C23_WitnessMalformed ==
    RenderedFrom(last, T_MALFORMED) /\ last.returned = Some(NoDataText)

\* a triple whose header the filter rejects is answered NO DATA
C23_WitnessFiltered ==
    /\ RenderedFrom(last, T_TRIPLE_OTHER) /\ FilteredOut(T_TRIPLE_OTHER)
    /\ last.returned = Some(NoDataText)

\* C23 as the specification states it: the output is NO DATA only when a
\* triple was attempted and failed.
C23_AsStated ==
    \A resp \in Templates :
        (RenderedFrom(last, resp) /\ last.returned = Some(NoDataText)) =>
            \E k \in 1..Len(resp) : FirstHeader(resp, k) /\ TripleFails(resp, k)

(***************************************************************************)
(* Malformed input of the UDS encoder                                      *)
(***************************************************************************)
\* the step rendered a template that is one answer, pos_answer, neg_answer
\* or flow node, with a payload, a request or a request header that is no
\* hexadecimal number
MalformedUds(step) ==
    /\ step.handled
    /\ \/ step.reply \in {Some(T_ANSWER_BAD), Some(T_FLOW_BAD)}
       \/ /\ step.reply \in {Some(T_POS), Some(T_NEG)}
          /\ Len(step.request) > 0 /\ ~HexText(step.request)
       \/ /\ step.reply \in {Some(T_ANSWER), Some(T_POS), Some(T_NEG)}
          /\ Len(step.request) > 0
          /\ IsSome(step.header) /\ ~HexText(Get(step.header))

\* C24: a payload, request or request header that is no hexadecimal number
\* lets no exception leave the renderer, and the output of a template that
\* is that node alone is empty or NO DATA.
C24_MalformedUds ==
    MalformedUds(last) =>
        /\ alive
        /\ last.returned \in {None, Some(<<>>), Some(NoDataText)}

\* the part that holds: a payload or a request that is no hexadecimal
\* number lets no exception leave the renderer
C24_MalformedPayload ==
    (MalformedUds(last) /\ IsSome(last.header) /\ HexText(Get(last.header))) => alive

(***************************************************************************)
(* Unknown tags                                                            *)
(***************************************************************************)
\* the tags handle_response knows
KnownTags ==
    {"rh", "rd", "string", "writeln", "space", "eval", "exec", "flow", "answer",
     "pos_answer", "neg_answer", "header", "size", "data", "subd"}

HasUnknownTag(resp) ==
    WellFormed(resp) /\ \E j \in 1..Len(resp) : resp[j].tag \notin KnownTags

\* C25: a template with a tag that handle_response does not know renders
\* none of its other nodes: the reply is empty or NO DATA.
C25_UnknownTag ==
    \A resp \in Templates :
        (RenderedFrom(last, resp) /\ HasUnknownTag(resp)) =>
            /\ last.returned \in {None, Some(NoDataText)}
            /\ last.written \in {<<>>, <<NoDataText>>}

\* the part that holds: the unknown node itself adds nothing to the reply
C25_UnknownNodeSilent ==
    /\ RenderedFrom(last, T_ONLY_UNKNOWN) => last.written = <<>>
    /\ (RenderedFrom(last, T_UNKNOWN) /\ ~Has(counters, K_linefeeds)) =>
          last.written = << <<"A", "B", "\r", ">">> >>

(***************************************************************************)
(* UDS encoding                                                            *)
(***************************************************************************)
\* what follows the encoded answer in the returned text: the spacing, the
\* line terminator of the node, the line terminator and the prompt
Trailer == SpOf(counters) \o NlOf(counters) \o NlOf(counters) \o <<">">>

RECURSIVE Spaced(_, _)
\* the digits of the text t in pairs, sp between the pairs
Spaced(t, sp) ==
    IF Len(t) <= 2 THEN t
    ELSE SubSeq(t, 1, 2) \o sp \o Spaced(SubSeq(t, 3, Len(t)), sp)

\* n as three hexadecimal digits
Hex3(n) ==
    LET x == IntToHex(n)
    IN  [k \in 1..(3 - Len(x)) |-> "0"] \o x

\* the step rendered a template of the single node tag
RenderedNode(step, tag) ==
    /\ step.handled /\ IsSome(step.reply)
    /\ Len(Get(step.reply)) = 1 /\ Get(step.reply)[1].tag = tag

\* the text of that node
NodeText(step) == Get(step.reply)[1].text

\* the header of the step has len hexadecimal digits
HeaderOfLen(step, len) ==
    IsSome(step.header) /\ Len(Get(step.header)) = len /\ HexText(Get(step.header))

\* C26: for a request header of 3 hexadecimal digits, the answer rendered
\* with headers on is the request header + 8 as 3 hexadecimal digits, the
\* number of payload bytes as one byte, and the payload; with headers off
\* it is the payload only.
C26_ReplyHeader ==
    (RenderedNode(last, "answer") /\ HeaderOfLen(last, 3)) =>
        LET h == Get(last.header)
            data == NodeText(last)
        IN  /\ alive
            /\ last.returned =
                  Some((IF UseHeaders(counters)
                        THEN Hex3(HexToInt(h) + 8) \o SpOf(counters)
                             \o Hex02(Len(data) \div 2) \o SpOf(counters)
                        ELSE <<>>)
                       \o Spaced(data, SpOf(counters)) \o Trailer)

\* the part that holds: the reply header is the request header + 8 without
\* leading zeros
C26_ReplyHeaderUnpadded ==
    (RenderedNode(last, "answer") /\ HeaderOfLen(last, 3)) =>
        LET h == Get(last.header)
            data == NodeText(last)
        IN  /\ alive
            /\ last.returned =
                  Some((IF UseHeaders(counters)
                        THEN IntToHex(HexToInt(h) + 8) \o SpOf(counters)
                             \o Hex02(Len(data) \div 2) \o SpOf(counters)
                        ELSE <<>>)
                       \o Spaced(data, SpOf(counters)) \o Trailer)

\* the bytes of the encoded answer in the text that the step returned: the
\* text without its trailer, read as hexadecimal bytes (None when there is
\* no such text or it is not whole bytes)
EncodedBytes(step) ==
    IF IsSome(step.returned) /\ EndsWith(Get(step.returned), Trailer)
    THEN FromHex(SubSeq(Get(step.returned), 1, Len(Get(step.returned)) - Len(Trailer)))
    ELSE None

\* the value of the byte at the digits k, k+1 of the text h
ByteAt(h, k) == HexToInt(SubSeq(h, k, k + 1))

\* the bytes b end with the sum modulo 256 of the bytes before
Checksummed(b) ==
    Len(b) >= 2 /\ b[Len(b)] = SumSeq(SubSeq(b, 1, Len(b) - 1)) % 256

\* the bytes b carry the byte src followed by the byte tgt
Swapped(b, tgt, src) == \E k \in 1..(Len(b) - 1) : b[k] = src /\ b[k + 1] = tgt

\* the payload an answer or positive answer node encodes, in bytes: the
\* text of the node, in a positive answer after the service byte + 0x40
\* and the second byte of the request
Encoded(step) ==
    (IF Get(step.reply)[1].tag = "pos_answer" THEN 2 ELSE 0) + Len(NodeText(step)) \div 2

\* the step rendered an answer or a positive answer to the service 0x22
\* for a request header of 29 bits with headers on
Rendered29(step) ==
    /\ RenderedNode(step, "answer") \/ RenderedNode(step, "pos_answer")
    /\ step.request = Request(34)
    /\ UseHeaders(step.pre_counters)

\* C27: for a request header of 29 bits with headers on, the reply carries
\* the target and source address of the request in swapped order and ends
\* with the sum modulo 256 of the bytes before, for every payload and both
\* spacings.
C27_Checksum29 ==
    (Rendered29(last) /\ (HeaderOfLen(last, 6) \/ HeaderOfLen(last, 8))) =>
        LET h == Get(last.header)
            b == EncodedBytes(last)
        IN  /\ alive
            /\ IsSome(b)
            /\ Checksummed(Get(b))
            /\ Swapped(Get(b), ByteAt(h, Len(h) - 3), ByteAt(h, Len(h) - 1))

\* the part that holds: for a header of 6 digits and a payload of less
\* than 10 or at least 16 bytes
C27_Checksum29Short ==
    (Rendered29(last) /\ HeaderOfLen(last, 6) /\ Encoded(last) \notin 10..15) =>
        LET h == Get(last.header)
            b == EncodedBytes(last)
        IN  /\ alive
            /\ IsSome(b)
            /\ Checksummed(Get(b))
            /\ Swapped(Get(b), ByteAt(h, 3), ByteAt(h, 5))

\* C28: for a request header of 29 bits (6 digits) with headers on, every
\* payload gives a frame of whole bytes; the length is one byte for a
\* payload of less than 16 bytes, and the byte 0x80 and a length byte for a
\* payload of 16 bytes or more.
C28_Length29 ==
    (Rendered29(last) /\ HeaderOfLen(last, 6)) =>
        LET n == Encoded(last)
            b == EncodedBytes(last)
        IN  /\ alive
            /\ IsSome(b)
            /\ n < 16 => Len(Get(b)) = n + 4
            /\ n >= 16 => Len(Get(b)) = n + 5 /\ Get(b)[1] = 128 /\ Get(b)[4] = n

\* the part that holds: the length is one byte, 0x80 + length, for a
\* payload of less than 10 bytes; the byte 0x80 and a length byte for 16
\* bytes or more; for 10 to 15 bytes an exception leaves the renderer
C28_Length29Code ==
    (Rendered29(last) /\ HeaderOfLen(last, 6)) =>
        LET n == Encoded(last)
            b == EncodedBytes(last)
        IN  /\ n \in 10..15 <=> ~alive
            /\ alive => IsSome(b)
            /\ n < 10 => Len(Get(b)) = n + 4 /\ Get(b)[1] = 128 + n
            /\ n >= 16 => Len(Get(b)) = n + 5 /\ Get(b)[1] = 128 /\ Get(b)[4] = n

(***************************************************************************)
(* Positive and negative answers                                           *)
(***************************************************************************)
\* the step rendered a positive or negative answer to a request of whole
\* bytes, for a header of 11 bits with headers off: the reply is the
\* encoded payload
RenderedReply(step) ==
    /\ RenderedNode(step, "pos_answer") \/ RenderedNode(step, "neg_answer")
    /\ WholeBytes(step.request)
    /\ HeaderOfLen(step, 3) /\ ~UseHeaders(step.pre_counters)

\* the service byte of the request of the step
ServiceByte(step) == ByteAt(step.request, 1)

\* C30: a positive answer starts with the byte service + 0x40 (as one
\* byte) and ends with the detail bytes of the node; a negative answer is
\* the byte 0x7F, the service byte and the detail bytes; for every service
\* byte 0x00..0xFF.
C30_ServiceByte ==
    RenderedReply(last) =>
        LET b == EncodedBytes(last)
            detail == Get(FromHex(NodeText(last)))
        IN  /\ alive
            /\ IsSome(b)
            /\ RenderedNode(last, "pos_answer") =>
                  /\ Len(Get(b)) >= 1 + Len(detail)
                  /\ Get(b)[1] = (ServiceByte(last) + 64) % 256
                  /\ SubSeq(Get(b), Len(Get(b)) - Len(detail) + 1, Len(Get(b))) = detail
            /\ RenderedNode(last, "neg_answer") =>
                  Get(b) = <<127, ServiceByte(last)>> \o detail

\* the part that holds: the negative answer for every service byte, the
\* positive answer (service + 0x40, the second byte of the request, the
\* detail bytes) for the service bytes below 0xC0; from 0xC0 on the
\* positive answer is not rendered as these bytes
C30_ServiceByteBelowC0 ==
    RenderedReply(last) =>
        LET b == EncodedBytes(last)
            detail == Get(FromHex(NodeText(last)))
        IN  /\ alive
            /\ IsSome(b)
            /\ RenderedNode(last, "pos_answer") =>
                  IF ServiceByte(last) < 192
                  THEN Get(b) = <<ServiceByte(last) + 64, ByteAt(last.request, 3)>> \o detail
                  ELSE Get(b) = <<>> \/ Get(b)[1] # (ServiceByte(last) + 64) % 256
            /\ RenderedNode(last, "neg_answer") =>
                  Get(b) = <<127, ServiceByte(last)>> \o detail

(***************************************************************************)
(* Flow control on a header of 29 bits                                     *)
(***************************************************************************)
\* the reassembly task accepted a frame on a header of 6 hexadecimal digits
\* at which a Flow-Control frame is due
FlowDue29(step, c) ==
    /\ Accepted(c) /\ FlowEnabled(step) /\ ClosesBlock(c)
    /\ IsSome(c.header) /\ Len(Get(c.header)) = 6 /\ HexText(Get(c.header))

\* C29: when a Flow-Control frame is due on a header of 29 bits, the task
\* is destroyed, nothing is written, and the worker goes on.
C29_FlowControl29 ==
    \A c \in CallsOf(last) :
        FlowDue29(last, c) =>
            /\ ~Stored(c)
            /\ last.written = <<>>
            /\ alive

\* the part that holds: no Flow-Control frame is written and the worker
\* goes on; but the task stays on the task table, collecting, and a blank
\* line and the prompt are written
C29_FlowControl29Code ==
    \A c \in CallsOf(last) :
        FlowDue29(last, c) =>
            /\ alive
            /\ Stored(c)
            /\ \E h \in DOMAIN tasks : SameTask(tasks[h], c) /\ IsSome(tasks[h].frame)
            /\ last.written = << <<" ", "\r", "\r", ">">> >>

\* the First Frame 1003AA on the header DA10F1
C29_Witness29 ==
    /\ last.line = L_FF
    /\ \E c \in CallsOf(last) : FlowDue29(last, c) /\ c.header = Some(H_29)

(***************************************************************************)
(* Command repetition                                                      *)
(***************************************************************************)
\* C33: a blank line read while a latest command is stored is replaced by
\* that command, which is processed again, and leaves the stored command as
\* it is; a blank line read while none is stored is processed as an empty
\* command.
C33_BlankRepeats ==
    [][(last'.handled /\ IsBlank(last'.line)) =>
          IF Has(counters, K_last_cmd)
          THEN /\ last'.cmd = counters[K_last_cmd]
               /\ last'.request = Sanitize(counters[K_last_cmd])
               /\ last'.pre_counters[K_last_cmd] = counters[K_last_cmd]
          ELSE /\ last'.cmd = last'.line
               /\ last'.request = <<>>]_vars

\* two blank lines in a row repeated the request 0100
C33_Witness ==
    /\ last.handled /\ IsBlank(last.line) /\ last.cmd = L_PID
    /\ last.resolved = Some(L_PID)
    /\ prev.handled /\ IsBlank(prev.line) /\ prev.cmd = L_PID
    /\ counters[K_last_cmd] = L_PID

\* a blank line after the adapter reset, which removed the stored command
C33_WitnessNoneStored ==
    /\ prev.line = L_ATZ /\ prev.reset
    /\ last.handled /\ last.line = L_BLANK /\ last.cmd = L_BLANK
    /\ last.request = <<>>

(***************************************************************************)
(* Validation of the line                                                  *)
(***************************************************************************)
\* the text has a character outside ELM_VALID_CHARS
HasInvalidChar(t) == \E i \in 1..Len(t) : t[i] \notin ValidChars

\* C34: a line with a character outside the valid set is not passed to
\* handle_request: no counter but the stored latest command changes, no
\* task is touched and nothing is written.
C34_InvalidLine ==
    HasInvalidChar(last.cmd) =>
        /\ ~last.handled
        /\ last.written = <<>>
        /\ counters = last.pre_counters
        /\ tasks = last.pre_tasks

\* what the code does: the line is passed to handle_request, counted as a
\* command and as an unknown one, and answered
C34_InvalidLineHandled ==
    HasInvalidChar(last.cmd) =>
        /\ last.handled
        /\ Count(counters, K_commands) = Count(last.pre_counters, K_commands) + 1
        /\ last.unknown
        /\ last.written # <<>>

(***************************************************************************)
(* Lines that interrupt a collection                                       *)
(***************************************************************************)
\* a collection was in progress on the header of the session when the line
\* of the step was read
CollectingBefore(step) ==
    /\ step.handled
    /\ Has(step.pre_tasks, step.header)
    /\ step.pre_tasks[step.header].kind = "Multiline"
    /\ IsSome(step.pre_tasks[step.header].frame)

\* the line of the step was the frame the reassembly task expected
TookFrame(step) == \E c \in CallsOf(step) : Accepted(c)

\* with the PCI byte parsed, the normalized text n is returned for its
\* prefix: nothing follows the PCI byte, fewer bytes follow than a prefix of
\* 0..15 declares, or the length of a First Frame is no number
MalformedPrefix(step, n) ==
    /\ FramedText(step, n)
    /\ \/ Len(n) = 2
       \/ DeclaresMore(n)
       \/ SubSeq(n, 1, 2) = <<"1", "0">> /\ ~HexText(SubSeq(n, 3, IF Len(n) < 4 THEN Len(n) ELSE 4))

\* C35 (amended): while a collection is in progress on the header, a line
\* other than the expected Consecutive Frame is neither resolved against
\* the catalog nor answered; it leaves the header without a task, unless it
\* is returned for its size prefix, in which case the collection stays as
\* it was.
C35_Interrupted ==
    (CollectingBefore(last) /\ ~TookFrame(last)) =>
        /\ last.resolved = None
        /\ last.written = <<>>
        /\ IF MalformedPrefix(last, Normalized(last.cmd))
           THEN tasks = last.pre_tasks
           ELSE ~Has(tasks, last.header)

\* a Single Frame came during the collection
C35_Witness ==
    /\ CollectingBefore(last) /\ ~TookFrame(last)
    /\ last.line = L_SF
    /\ ~Has(tasks, last.header)

\* an AT command came during the collection
C35_WitnessAT ==
    /\ CollectingBefore(last) /\ ~TookFrame(last)
    /\ last.line = L_ATH1
    /\ ~Has(tasks, last.header)
    /\ ~Has(counters, K_use_header)

\* a frame with too little after its prefix came during the collection
C35_WitnessShort ==
    /\ CollectingBefore(last) /\ ~TookFrame(last)
    /\ last.line = L_SHORT
    /\ tasks = last.pre_tasks

\* C35 as stated: every line other than the expected Consecutive Frame
\* leaves the header without a task.
C35_AsStated ==
    (CollectingBefore(last) /\ ~TookFrame(last)) =>
        /\ ~Has(tasks, last.header)
        /\ last.resolved = None
        /\ last.written = <<>>

(***************************************************************************)
(* The stored reassembly task                                              *)
(***************************************************************************)
\* the number of frames the task of the header h took in the step
FramesTaken(step, h) ==
    Len(SelectSeq(step.calls, LAMBDA c : Accepted(c) /\ c.header = h))

\* C40: a Multiline task that is on the task table after a step is
\* collecting: its length is above 0, its payload is shorter than twice the
\* length, and the index it expects is 1 when the step created it with a
\* First Frame and otherwise grew by the number of Consecutive Frames it took
\* in the step (so it is 1 plus the number of frames taken since).
C40_Collecting ==
    [][\A h \in DOMAIN tasks' :
          tasks'[h].kind = "Multiline" =>
             /\ IsSome(tasks'[h].length) /\ Get(tasks'[h].length) > 0
             /\ IsSome(tasks'[h].req)
             /\ Len(Get(tasks'[h].req)) < 2 * Get(tasks'[h].length)
             /\ IsSome(tasks'[h].frame)
             /\ IF Has(tasks, h) /\ SameTask(tasks[h], tasks'[h])
                THEN Get(tasks'[h].frame) = Get(tasks[h].frame) + FramesTaken(last', h)
                ELSE Get(tasks'[h].frame) = 1 /\ FramesTaken(last', h) = 1]_vars

\* the task took the First Frame and one Consecutive Frame and goes on
C40_Witness ==
    /\ last.line = L_CF1
    /\ TookFrame(last)
    /\ \E h \in DOMAIN tasks :
          /\ tasks[h].kind = "Multiline"
          /\ tasks[h].frame = Some(2)
          /\ tasks[h].length = Some(3)
          /\ tasks[h].req = Some(<<"A", "A", "B", "B">>)

(***************************************************************************)
(* What the reset keeps                                                    *)
(***************************************************************************)
\* the key is none of those Elm.reset deletes or stores, pre being the
\* presets
Survives(k, pre) ==
    /\ k[1] # "cmd_"
    /\ k \notin {<<"ELM_PIDS_A">>, <<"ELM_MIDS_A">>}
    /\ k \notin DOMAIN pre

\* how often the request of the step incremented the counter k
Bumps(step, k) ==
    (IF step.handled /\ k = K_commands THEN 1 ELSE 0)
    + Len(SelectSeq(step.hits, LAMBDA pid : pid = k))
    + Len(SelectSeq(step.calls, LAMBDA c : Terminated(c) /\ TaskName(c.kind) = k))

\* C39: a reset leaves every counter as it is whose key neither starts with
\* cmd_ nor is ELM_PIDS_A, ELM_MIDS_A or a preset key: after a step that
\* reset the session such a counter has the value it had before the step,
\* plus the increments the request itself made; and the reset of the
\* counters of any state under each preset configuration keeps them.
C39_ResetKeeps ==
    /\ last.reset =>
          \A k \in DOMAIN last.pre_counters
                   \cup {x \in DOMAIN counters : Bumps(last, x) > 0} :
              Survives(k, presets) =>
                 /\ Has(counters, k)
                 /\ IF Bumps(last, k) > 0
                    THEN counters[k] = Count(last.pre_counters, k) + Bumps(last, k)
                    ELSE Has(last.pre_counters, k) /\ counters[k] = last.pre_counters[k]
    /\ \A pre \in PresetChoices :
          \A k \in DOMAIN counters :
              Survives(k, pre) =>
                 /\ Has(resetWith(counters, pre), k)
                 /\ resetWith(counters, pre)[k] = counters[k]

\* the adapter reset after a request of the catalog, an unknown command
\* and a task of a plugin that terminated
C39_Witness ==
    /\ last.reset /\ last.handled /\ last.line = L_ATZ
    /\ Count(counters, K_commands) = 4
    /\ Count(counters, PidOf("PID_0100")) = 1
    /\ Count(counters, K_unknown(<<"A", "T", "B">>)) = 1
    /\ Count(counters, TaskName("task_plugin")) = 1
    /\ Count(counters, PidOf("AT_Z")) = 1

\* the reset of a disconnection
C39_WitnessDisconnect ==
    /\ last.reset /\ ~last.handled
    /\ Count(counters, K_commands) = 2
    /\ Count(counters, K_unknown(<<"A", "T", "B">>)) = 2

(***************************************************************************)
(* The response of a task method                                           *)
(***************************************************************************)
\* the calls of the step, in order, whose method returned the response of
\* the plugin together with a command to pass through (inside TRUE) or
\* without one (inside FALSE)
Responding(step, inside) ==
    SelectSeq(step.calls, LAMBDA c : /\ ~c.ret.raised
                                     /\ c.ret.r_cmd = Some(PluginResponse)
                                     /\ IsSome(c.ret.r_cont) = inside)

\* the texts of the step that are the rendered response of the plugin
ResponseWrites(texts) == SelectSeq(texts, LAMBDA t : Take(t, 2) = <<"O", "K">>)

\* C36: a response that a task method returns is rendered and written once:
\* inside task_action when the method also returned a command to pass
\* through (the reply handle_request returns is then another one), and by
\* the caller of handle_request, as the reply it returns and the last text
\* written, when it did not.
C36_WrittenOnce ==
    (last.handled /\ ~last.raised) =>
        /\ Len(ResponseWrites(last.written))
              = Len(Responding(last, TRUE)) + Len(Responding(last, FALSE))
        /\ Len(Responding(last, FALSE)) <= 1
        /\ Len(Responding(last, FALSE)) = 1 <=>
              /\ last.reply = Some(PluginResponse)
              /\ IsSome(last.returned)
              /\ Take(Get(last.returned), 2) = <<"O", "K">>
              /\ last.written[Len(last.written)] = Get(last.returned)
        /\ Len(Responding(last, FALSE)) = 0 =>
              (IsSome(last.returned) => Take(Get(last.returned), 2) # <<"O", "K">>)

\* the start method returned the response and a command to pass through:
\* the response was written inside task_action, the answer of the catalog
\* entry by the caller
C36_Witness ==
    /\ last.handled /\ last.line = L_PLUGIN
    /\ Len(Responding(last, TRUE)) = 1 /\ Len(Responding(last, FALSE)) = 0
    /\ Len(last.written) = 2
    /\ Take(last.written[1], 2) = <<"O", "K">>
    /\ last.reply = Some(ST(<<"7", "E">>))

\* the run method returned the response and no command
C36_WitnessCaller ==
    /\ last.handled /\ last.line = L_PID
    /\ \E i \in 1..Len(last.calls) : last.calls[i].method = "run"
    /\ Len(Responding(last, FALSE)) = 1
    /\ Len(last.written) = 1
    /\ last.reply = Some(PluginResponse)

\* the stop method returned the response and the line to pass through
C36_WitnessStop ==
    /\ last.handled /\ last.line = L_ODD
    /\ \E i \in 1..Len(last.calls) : last.calls[i].method = "stop"
    /\ Len(Responding(last, TRUE)) = 1
    /\ Len(last.written) = 2
    /\ last.reply = Some(ELM_R_UNKNOWN)

(***************************************************************************)
(* The worker and the thread state                                         *)
(***************************************************************************)
Halted == threadState \in {"STOPPED", "TERMINATED"}

\* C38: once the thread state is STOPPED or TERMINATED, a line whose read
\* returns afterwards is never passed to handle_request, and the step of
\* the worker that follows the return of the read leaves the loop; while the
\* state is PAUSED and the worker is at the top of the loop, it starts no
\* read.
C38_HaltedWorker ==
    [][/\ (worker'.pc \in {"request", "response"} => ~worker'.late)
       /\ (Halted /\ worker.pc = "read" /\ worker' # worker
              => worker'.pc = "exited" /\ ~alive')
       /\ (threadState = "PAUSED" /\ worker.pc = "top" => worker'.pc = "top")]_vars

\* a line was read after the state was set, and the worker left the loop
C38_Witness ==
    /\ Halted
    /\ worker.pc = "exited"
    /\ worker.late
    /\ IsSome(worker.cmd)

\* the worker waits at the top of the loop after it handled a line
C38_WitnessPaused ==
    /\ threadState = "PAUSED"
    /\ worker.pc = "top"
    /\ alive
    /\ last.handled

(***************************************************************************)
(* Who writes the counters                                                 *)
(***************************************************************************)
\* the worker passed the test of line 619 with a line and has not finished
\* the response to it
Handling == alive /\ worker.pc \in {"request", "response"}

\* C31: while the worker is between reading a line and finishing the
\* response to it, a step of another thread neither modifies nor replaces
\* the counters or the task table.
C31_OneWriter ==
    [][(Handling /\ worker' = worker) => (counters' = counters /\ tasks' = tasks)]_vars

\* terminate() replaced the counters under a request that the worker went on
\* to handle: the request found no header set
C31_Replaced ==
    /\ threadState = "TERMINATED"
    /\ last.handled
    /\ ~Has(last.pre_counters, K_set_header)
    /\ Count(counters, K_commands) = 1

(***************************************************************************)
(* The cached catalog                                                      *)
(***************************************************************************)
\* C37: after any sequence of scenario selections, resets and calls of
\* terminate(), the cached sorted catalog is the merge computed for the
\* scenario recorded as active.
C37_CacheCurrent == sortedOBDMsg = setSortedOBDMsg(scenario)

\* until terminate() is called the cache is the one of the active scenario,
\* whatever was selected and however often the session was reset
C37_CurrentUntilTerminate ==
    threadState # "TERMINATED" => sortedOBDMsg = setSortedOBDMsg(scenario)

\* what the code does: after terminate() the scenario recorded is the
\* default one, and the worker answers a request from the entry of the
\* scenario selected before
C37_StaleAnswer ==
    /\ threadState = "TERMINATED"
    /\ scenario = "default"
    /\ last.handled
    /\ ~Has(last.pre_counters, K_set_header)
    /\ last.request = Sanitize(L_0902)
    /\ last.reply = Get(ObdMessage["car"][2][2].Response)
    /\ last.reply # Get(ObdMessage["default"][6][2].Response)

\* a reset of the session under a scenario other than the default one
C37_ResetSeen == scenario = "car" /\ last.reset /\ threadState = "ACTIVE"

(***************************************************************************)
(* Failures of the forwarding adapter                                      *)
(***************************************************************************)
\* the step read an unknown command and wrote the reply for it
Answered(step) ==
    /\ step.handled
    /\ step.unknown
    /\ step.reply \in {Some(ST(NO_DATA)), Some(ELM_R_UNKNOWN)}
    /\ step.written # <<>>

\* the forwarding adapter failed in the step: it is not connected, gave no
\* data before the timeout, raised an error or refused the connection
ForwardFailed(step) == IsSome(step.fw) /\ IsNone(Get(step.fw).data)

\* C32: when the forwarding adapter fails (cannot connect, I/O error,
\* timeout), the unknown command still receives its NO DATA or ? reply and
\* the worker goes on with the lines that follow.
C32_FailureHarmless ==
    ForwardFailed(last) => (Answered(last) /\ alive /\ threadState = "ACTIVE")

\* the failures that send_receive_forward reports by its return value
\* (False: not connected; None: no data before the timeout) are harmless
C32_ReportedFailure ==
    (IsSome(last.fw) /\ Get(last.fw) \in {FW_FALSE, FW_NONE})
        => (Answered(last) /\ alive /\ threadState = "ACTIVE")

\* a timeout of the forwarding adapter, answered NO DATA
C32_WitnessTimeout ==
    /\ last.fw = Some(FW_NONE)
    /\ Answered(last)
    /\ alive

\* what the code does when an error leaves send_receive_forward: the
\* command is counted, nothing is written, the worker goes on
C32_Unanswered ==
    /\ last.fw = Some(FW_RAISED)
    /\ last.handled /\ last.raised
    /\ last.written = <<>>
    /\ Count(counters, K_unknown(last.request)) > 0
    /\ alive

\* what the code does when the forwarding host refuses the connection: the
\* line is not handled and the worker has left the loop
C32_SessionEnded ==
    /\ last.fw = Some(FW_REFUSED)
    /\ ~last.handled
    /\ ~alive
    /\ threadState = "TERMINATED"

====
